---- MODULE Spec2Model ----
(***************************************************************************)
(* A model of the chattingclient repository: the signalling relay          *)
(* (src/server.py), the session coordinator and data-channel protocol      *)
(* (src/peer_connector.py, src/flask_chat_app/flask_peer_connector.py)     *)
(* and the chunked file-transfer engine they carry.                        *)
(*                                                                         *)
(* One module holds several specifications over the same variables; each   *)
(* one exercises one part of the program and leaves the rest at its        *)
(* initial value:                                                          *)
(*   SpecRelay     the relay's handler, three connections, three room keys *)
(*   SpecFile      send_file on one session, the receiving handler on the  *)
(*                 other, the channel delivering frames in any order       *)
(*   SpecRecv      the receiving handler fed arbitrary file_chunk frames   *)
(*   SpecProgress  the receiving handler fed one well-formed transfer      *)
(*   SpecChat      send_message and disconnect on the caller thread of a   *)
(*                 negotiated session against the open handler and the     *)
(*                 teardown task on its loop thread                        *)
(*   SpecNeg       two sessions and the relay: join, ready, the offer      *)
(*                 timers, offer and answer, the channel coming up         *)
(*   SpecSig       one session and the relay, the peer sending any         *)
(*                 signalling frame, either connection dropping            *)
(*   SpecRace      one session and the relay, the peer sending ready       *)
(*                 frames and an offer: the scheduled offer attempts       *)
(*   SpecMsg       the receiving handler fed frames of every shape         *)
(*   SpecClose     disconnect against a transfer still arriving            *)
(*   SpecSend      send_file and send_message while the channel is still   *)
(*                 coming up, opens and closes                             *)
(*   SpecDup       the receiving handler fed repeated chunk ids            *)
(*   SpecAsm       the receiving handler fed a file it cannot write        *)
(*   SpecStop      one session torn down while it negotiates               *)
(*   SpecTwo       two transfers received with their frames interleaved    *)
(***************************************************************************)
EXTENDS Integers, Sequences, FiniteSets, TLC

(***************************************************************************)
(* Bounds of the model (not program constants).                            *)
(***************************************************************************)
\* frames the relay's clients send in one run of SpecRelay
MaxRelayMsgs == 4
\* bytes of the file send_file reads in SpecFile
MaxFileLen == 5
\* the chunk size SpecFile cuts files with: stands for CHUNK_SIZE, which is
\* too large to enumerate byte by byte
ChunkBound == 2
\* ticks of the wall clock in SpecFile
MaxClock == 1
\* arbitrary frames the peer sends in SpecRecv
MaxFrames == 4
\* chunks of the largest transfer of SpecProgress
MaxProgTotal == 8
\* chunks of each of the two transfers of SpecTwo
MaxTwoChunks == 3
\* send_message calls per session
MaxMsgs == 2
\* disconnect calls per session
MaxDisc == 2
\* click_ready calls per session
MaxClicks == 1
\* frames in transit at the start of SpecMsg
MaxWire == 3
\* chunks of the largest transfer of SpecClose
MaxCloseTotal == 3

None == "None"

(***************************************************************************)
(* The relay: src/server.py                                                *)
(***************************************************************************)
\* Connections the relay serves.  Connections 1 and 2 are the two sessions.
Conns == {1, 2, 3}
\* Room keys: msg["room"] is whatever JSON value the frame carries.  None
\* (JSON null) is falsy, as "" is, and is also what the handler's `room`
\* holds before any join.
RoomIds == {"one", "two", None}

VARIABLES
  ROOMS,      \* server.py ROOMS: room key -> set of member connections
  hroom,      \* handler's local `room` of each connection (None before a join)
  hstate,     \* "new": not connected, "open": handler in its receive loop,
              \* "dropped": transport gone, handler not yet resumed, "done"
  toRelay,    \* frames a client sent that its handler has not read yet
  inbox,      \* frames the relay sent to a client that it has not read yet
  nrelay,     \* frames sent to the relay so far by the abstract clients
  lastRelay   \* the last relay step: sender, frame read, room, members then,
              \* connections t.send was called on, payload handed to t.send

relayVars == <<ROOMS, hroom, hstate, toRelay, inbox, nrelay, lastRelay>>

(***************************************************************************)
(* The sessions: src/peer_connector.py (PeerConnector) and                 *)
(* src/flask_chat_app/flask_peer_connector.py (FlaskPeerConnector).        *)
(* Session s uses relay connection s.                                      *)
(***************************************************************************)
Sessions == {1, 2}
Peer(s) == 3 - s

VARIABLES
  ready, peer_ready, offer_sent, offer_received, closed,  \* the flags
  ws,            \* self.ws: None, or "ws" (the relay connection object)
  dc,            \* self.dc: NoDc (None), or the creator of the channel it refers to
  pending_msgs,  \* self.pending_msgs
  file_chunks,   \* self.file_chunks: filename -> Transfer record
  pcState,       \* self.pc: its signalling state, or "closed"
  onDc,          \* whether pc.on("datachannel") has been registered
  chan,          \* the channel created by each session: readyState of the
                 \* creator's end (l), of the peer's end (r), and whether the
                 \* peer's end was handed to _wire_dc (rwired)
  chanIn,        \* data-channel frames in transit to each session
  loopq,         \* callbacks queued on self.loop by call_soon_threadsafe
  lpc,           \* the synchronous handler the loop thread is inside, if any
  cpc,           \* where the caller thread (UI or request thread) is
  gui,           \* what the last handler run that posted handed to _post
  downloads,     \* the received-files directory: filename -> bytes
  disk,          \* the caller's files: path -> bytes
  clock,         \* time.time()
  sentLog,       \* every frame dc.send accepted, in order (history)
  sfLog,         \* the send_file call made: file bytes and capture time (history)
  delivered,     \* every file event posted: name and bytes written (history)
  reordered,     \* whether the channel has handed over a chunk after one of a
                 \* higher index of the same file (history)
  ninj,          \* frames injected by the peer in SpecRecv (history)
  run,           \* where the _run coroutine is
  otask,         \* where the _try_send_offer task is, once past its guard
  disctask,      \* where the _disc task is, once past its guard
  timers,        \* offer attempts scheduled by loop.call_later: those not yet
                 \* fired, and those that fired and returned at the guard
  linked,        \* whether the offer/answer exchange of the two pcs completed
  called,        \* the send_message calls made: text, and whether the call
                 \* found the channel not open (history)
  clicks,        \* the click_ready calls made, each with the self.ws it found (history)
  discCalls,     \* number of disconnect calls made (history)
  discLog,       \* the _disc runs that got past the closed test: how many,
                 \* what they posted, whether the channel was open (history)
  sigLog         \* the types of the frames written to the relay connection (history)

flagVars == <<ready, peer_ready, offer_sent, offer_received, closed>>
negVars == <<ws, pcState, onDc>>
chanVars == <<dc, chan, chanIn>>
chatVars == <<pending_msgs, loopq, lpc, cpc, sentLog>>
recvVars == <<file_chunks, gui, downloads, delivered>>
fileVars == <<recvVars, disk, clock, sfLog, reordered, ninj>>
coVars == <<run, otask, disctask, timers, linked>>
histVars == <<called, clicks, discCalls, discLog, sigLog>>
sessVars == <<flagVars, negVars, chanVars, chatVars, fileVars, coVars, histVars>>

vars == <<relayVars, sessVars>>

\* Frames a client may put on its relay connection.  type "bad" stands for a
\* frame json.loads or msg["type"] raises on.
RelayTypes == {"join", "ready", "offer", "answer", "bad"}
RelayFrame(t, r, d) == [type |-> t, room |-> r, data |-> d]
RelayFrames == {RelayFrame(t, r, 0) : t \in RelayTypes, r \in RoomIds}
\* what the abstract clients of SpecRelay send
ClientFrames ==
  {RelayFrame(t, r, 0) : t \in {"join", "ready"}, r \in RoomIds} \cup {RelayFrame("bad", "", 0)}

NoRelay == [from |-> 0, raw |-> RelayFrame("none", "", 0), room |-> None,
            members |-> {}, to |-> {}, sent |-> RelayFrame("none", "", 0),
            joined |-> FALSE]

InitRelayVars ==
  /\ ROOMS = <<>>
  /\ hroom = [c \in Conns |-> None]
  /\ hstate = [c \in Conns |-> "new"]
  /\ toRelay = [c \in Conns |-> <<>>]
  /\ inbox = [c \in Conns |-> <<>>]
  /\ nrelay = 0
  /\ lastRelay = NoRelay

\* ROOMS.get(room, set())
RoomGet(rooms, r) == IF r \in DOMAIN rooms THEN rooms[r] ELSE {}

\* ROOMS.setdefault(room, set()).add(ws)
RoomAdd(rooms, r, c) ==
  [k \in DOMAIN rooms \cup {r} |-> IF k = r THEN RoomGet(rooms, r) \cup {c} ELSE rooms[k]]

\* the finally block: leave the room, delete it when it is left empty.
\* `if room and ...`: None and "" are falsy, so nothing is done for them.
RoomLeave(rooms, r, c) ==
  IF r # None /\ r # "" /\ c \in RoomGet(rooms, r)
    THEN IF rooms[r] \ {c} = {}
           THEN [k \in DOMAIN rooms \ {r} |-> rooms[k]]
           ELSE [rooms EXCEPT ![r] = @ \ {c}]
    ELSE rooms

\* targets = ROOMS.get(room, set()) - {ws}
TargetsEcho(rooms, r, c) == RoomGet(rooms, r)
Targets(rooms, r, c) == RoomGet(rooms, r) \ {c}

\* the payload handed to t.send: raw, the frame as read
RelayPayloadRewritten(f) == [f EXCEPT !.room = "one"]
RelayPayload(f) == f

\* websockets.serve accepts a connection and starts handler(ws, _path)
Connect(c) ==
  /\ hstate[c] = "new"
  /\ hstate' = [hstate EXCEPT ![c] = "open"]
  /\ UNCHANGED <<ROOMS, hroom, toRelay, inbox, nrelay, lastRelay>>

\* the frame is a join: room = msg["room"]; ROOMS.setdefault(room, set()).add(ws)
HandleJoin(c, f) ==
  /\ hroom' = [hroom EXCEPT ![c] = f.room]
  /\ ROOMS' = RoomAdd(ROOMS, f.room, c)
  /\ UNCHANGED <<hstate, inbox, lastRelay>>

\* any other frame: gather(t.send(raw) for t in targets).  A send to a
\* connection whose transport is gone raises; gather re-raises it in the
\* handler, whose finally block then runs and ends it.
HandleRelay(c, f) ==
  LET tg == Targets(ROOMS, hroom[c], c)
      failed == \E t \in tg : hstate[t] # "open"
  IN /\ inbox' = [t \in Conns |->
                    IF t \in tg /\ hstate[t] = "open"
                      THEN Append(inbox[t], RelayPayload(f)) ELSE inbox[t]]
     /\ lastRelay' = [from |-> c, raw |-> f, room |-> hroom[c],
                      members |-> RoomGet(ROOMS, hroom[c]), to |-> tg,
                      sent |-> RelayPayload(f),
                      joined |-> \E r \in DOMAIN ROOMS : c \in ROOMS[r]]
     /\ IF failed
          THEN /\ ROOMS' = RoomLeave(ROOMS, hroom[c], c)
               /\ hstate' = [hstate EXCEPT ![c] = "done"]
          ELSE UNCHANGED <<ROOMS, hstate>>
     /\ UNCHANGED hroom

\* json.loads(raw) or msg["type"] raises: the finally block runs, the handler ends
HandleBad(c) ==
  /\ ROOMS' = RoomLeave(ROOMS, hroom[c], c)
  /\ hstate' = [hstate EXCEPT ![c] = "done"]
  /\ UNCHANGED <<hroom, inbox, lastRelay>>

\* the body of `async for raw in ws` in handler, for the frame f just read
Handle(c, f) ==
  CASE f.type = "bad" -> HandleBad(c)
    [] f.type = "join" -> HandleJoin(c, f)
    [] OTHER -> HandleRelay(c, f)

\* one iteration of `async for raw in ws`: the handler reads the next frame
\* its client sent and handles it
HandlerStep(c) ==
  /\ hstate[c] = "open"
  /\ toRelay[c] # <<>>
  /\ Handle(c, Head(toRelay[c]))
  /\ toRelay' = [toRelay EXCEPT ![c] = IF hstate'[c] = "open" THEN Tail(@) ELSE <<>>]
  /\ UNCHANGED nrelay

\* an abstract client writes frame f on its connection and the handler reads it
ClientFrame(c, f) ==
  /\ hstate[c] = "open"
  /\ nrelay < MaxRelayMsgs
  /\ nrelay' = nrelay + 1
  /\ Handle(c, f)
  /\ UNCHANGED toRelay

\* the client's connection goes away (closed by the client, or lost)
Drop(c) ==
  /\ hstate[c] = "open"
  /\ hstate' = [hstate EXCEPT ![c] = "dropped"]
  /\ toRelay' = [toRelay EXCEPT ![c] = <<>>]
  /\ inbox' = [inbox EXCEPT ![c] = <<>>]
  /\ UNCHANGED <<ROOMS, hroom, nrelay, lastRelay>>

\* `async for` ends on the closed connection: the finally block runs
HandlerExit(c) ==
  /\ hstate[c] = "dropped"
  /\ ROOMS' = RoomLeave(ROOMS, hroom[c], c)
  /\ hstate' = [hstate EXCEPT ![c] = "done"]
  /\ UNCHANGED <<hroom, toRelay, inbox, nrelay, lastRelay>>

(***************************************************************************)
(* Pure helpers of the sessions                                            *)
(***************************************************************************)
SeqsUpTo(S, n) == UNION {[1..k -> S] : k \in 0..n}
Min(a, b) == IF a < b THEN a ELSE b

\* byte values files are made of
ByteVals == {0, 97, 255}

\* base64.b64encode(chunk): three bytes become four sextets (0..63); 64 is "="
RECURSIVE B64Encode(_)
B64Encode(b) ==
  IF Len(b) = 0 THEN <<>>
  ELSE IF Len(b) = 1 THEN
    LET n == b[1] * 65536
    IN <<n \div 262144, (n \div 4096) % 64, 64, 64>>
  ELSE IF Len(b) = 2 THEN
    LET n == b[1] * 65536 + b[2] * 256
    IN <<n \div 262144, (n \div 4096) % 64, (n \div 64) % 64, 64>>
  ELSE
    LET n == b[1] * 65536 + b[2] * 256 + b[3]
    IN <<n \div 262144, (n \div 4096) % 64, (n \div 64) % 64, n % 64>>
         \o B64Encode(SubSeq(b, 4, Len(b)))

\* base64.b64decode(data): four sextets become three bytes, less one byte per
\* "="; a length that is no multiple of four raises binascii.Error (ok = FALSE)
RECURSIVE B64DecodeGroups(_)
B64DecodeGroups(t) ==
  IF Len(t) = 0 THEN <<>>
  ELSE
    LET v(i) == IF t[i] = 64 THEN 0 ELSE t[i]
        n == v(1) * 262144 + v(2) * 4096 + v(3) * 64 + v(4)
        three == <<n \div 65536, (n \div 256) % 256, n % 256>>
        pads == Cardinality({i \in 3..4 : t[i] = 64})
    IN SubSeq(three, 1, 3 - pads) \o B64DecodeGroups(SubSeq(t, 5, Len(t)))

B64Decode(t) ==
  IF Len(t) % 4 # 0
    THEN [ok |-> FALSE, bytes |-> <<>>]
    ELSE [ok |-> TRUE, bytes |-> B64DecodeGroups(t)]

\* round(received / total * 100): Python rounds a tie to the even integer.
\* num/den is the exact quotient; for totals below 40 the float quotient
\* rounds the same way.
PyRoundHalfUp(num, den) ==
  LET q == num \div den
      r == num % den
  IN IF 2 * r < den THEN q ELSE q + 1
PyRound(num, den) ==
  LET q == num \div den
      r == num % den
  IN IF 2 * r < den THEN q
     ELSE IF 2 * r > den THEN q + 1
     ELSE IF q % 2 = 0 THEN q ELSE q + 1

CHUNK_SIZE == 64000

\* range(0, len(raw), size) and the slices raw[i:i+size]: (start, stop) of each
SliceBoundsShort(len, size) ==
  [k \in 1..(len \div size) |-> <<(k - 1) * size, k * size>>]
SliceBounds(len, size) ==
  [k \in 1..((len + size - 1) \div size) |-> <<(k - 1) * size, Min(k * size, len)>>]

\* chunks = [raw[i:i+CHUNK_SIZE] for i in range(0, len(raw), CHUNK_SIZE)]
Chunks(raw, size) ==
  LET b == SliceBounds(Len(raw), size)
  IN [k \in DOMAIN b |-> SubSeq(raw, b[k][1] + 1, b[k][2])]

\* the files of the model and os.path.splitext(filename)[1].lower()
FileNames == {"report.PDF", "b.png"}
ExtOf(name) == IF name = "report.PDF" THEN ".pdf" ELSE ".png"

FileChunkFrame(name, ext, id, total, data, ts) ==
  [type |-> "file_chunk", filename |-> name, ext |-> ext, chunk_id |-> id,
   total_chunks |-> total, data |-> data, timestamp |-> ts]

HasKey(f, k) == k \in DOMAIN f

\* d[k] = v on a dict
PutKeepFirst(d, k, v) ==
  [x \in DOMAIN d \cup {k} |-> IF x \in DOMAIN d THEN d[x] ELSE v]
Put(d, k, v) == [x \in DOMAIN d \cup {k} |-> IF x = k THEN v ELSE d[x]]
\* del d[k]
DelKeeps(d, k) == d
Del(d, k) == [x \in DOMAIN d \ {k} |-> d[x]]

\* for i in range(n): f.write(chunks[i])
RECURSIVE ConcatDownFrom(_, _)
ConcatDownFrom(ch, n) == IF n = 0 THEN <<>> ELSE ch[n - 1] \o ConcatDownFrom(ch, n - 1)
RECURSIVE ConcatUpTo(_, _)
ConcatUpTo(ch, n) == IF n = 0 THEN <<>> ELSE ConcatUpTo(ch, n - 1) \o ch[n - 1]

(***************************************************************************)
(* The data-channel message handler: _wire_dc._msg                         *)
(***************************************************************************)
EvProgress(name, percent) ==
  [kind |-> "status", ev |-> "progress", name |-> name, percent |-> percent]
EvFileChat(name) == [kind |-> "chat", ev |-> "file_arrived", name |-> name]
EvFile(name, ext) == [kind |-> "file", ev |-> "file", name |-> name, ext |-> ext]
EvParseError == [kind |-> "chat", ev |-> "parse_error"]
EvPeerDiscChat == [kind |-> "chat", ev |-> "----disconnected----"]
EvPeerDiscStatus == [kind |-> "status", ev |-> "Peer disconnected"]
EvPeerName(name) == [kind |-> "status", ev |-> "peer_username", name |-> name]
EvChat(user, msg) == [kind |-> "chat", ev |-> "msg", name |-> user, msg |-> msg]

\* the result of one run of _msg: the file_chunks map, the received-files
\* directory, the events posted, the files delivered
MsgOut(fc, dl, posted, deliv) == [fc |-> fc, dl |-> dl, gui |-> posted, deliv |-> deliv]

\* the except branch: whatever was done before the exception stays done
MsgRaisedSilent(fc, dl, posted) == MsgOut(fc, dl, posted, <<>>)
MsgRaised(fc, dl, posted) == MsgOut(fc, dl, posted \o <<EvParseError>>, <<>>)

\* percent = round(received / total * 100)
Percent(received, total) == PyRound(received * 100, total)

\* the file_chunk branch
\* os.path.join("downloads", key) names a file open(path, "wb") can create:
\* only "downloads" itself is made, a key with a directory part raises
Unwritable == {"sub/b.png"}
Writable(key) == key \notin Unwritable

\* key = data["filename"]
TransferKeyShared(f) == "current"
TransferKey(f) == f.filename

FileChunkResult(fc, dl, f) ==
  IF ~HasKey(f, "filename") THEN MsgRaised(fc, dl, <<>>)
  ELSE
  LET key == TransferKey(f)
      known == key \in DOMAIN fc
  IN
  IF ~known /\ ~({"ext", "total_chunks", "timestamp"} \subseteq DOMAIN f)
    THEN MsgRaised(fc, dl, <<>>)
  ELSE
  LET fc1 == IF known THEN fc
             ELSE Put(fc, key, [ext |-> f.ext, total |-> f.total_chunks,
                                chunks |-> <<>>, start_time |-> f.timestamp])
  IN
  IF ~({"chunk_id", "data"} \subseteq DOMAIN f) THEN MsgRaised(fc1, dl, <<>>)
  ELSE
  LET dec == B64Decode(f.data)
  IN
  IF ~dec.ok THEN MsgRaised(fc1, dl, <<>>)
  ELSE
  LET fc2 == [fc1 EXCEPT ![key].chunks = Put(@, f.chunk_id, dec.bytes)]
      received == Cardinality(DOMAIN fc2[key].chunks)
      total == fc2[key].total
  IN
  IF total = 0 THEN MsgRaised(fc2, dl, <<>>)      \* ZeroDivisionError
  ELSE
  LET status == EvProgress(key, Percent(received, total))
      missing == {i \in 0..(total - 1) : i \notin DOMAIN fc2[key].chunks}
      firstMissing == CHOOSE i \in missing : \A j \in missing : i <= j
  IN
  IF received # total THEN MsgOut(fc2, dl, <<status>>, <<>>)
  \* open(path, "wb") raises: nothing is written
  ELSE IF ~Writable(key) THEN MsgRaised(fc2, dl, <<status>>)
  ELSE IF missing # {}
    \* open(path, "wb") and the writes before the KeyError have happened
    THEN MsgRaised(fc2, Put(dl, key, ConcatUpTo(fc2[key].chunks, firstMissing)),
                   <<status>>)
  ELSE
    LET bytes == ConcatUpTo(fc2[key].chunks, total)
    IN MsgOut(Del(fc2, key), Put(dl, key, bytes),
              <<status, EvFileChat(key), EvFile(key, fc2[key].ext)>>,
              <<[name |-> key, bytes |-> bytes]>>)

\* _msg(payload).  A payload json.loads raises on is [bad |-> TRUE].
MsgResult(fc, dl, f) ==
  IF HasKey(f, "bad") THEN MsgRaised(fc, dl, <<>>)
  ELSE IF HasKey(f, "type") /\ f.type = "file_chunk" THEN FileChunkResult(fc, dl, f)
  ELSE IF HasKey(f, "system") /\ f.system = "disconnect"
    THEN MsgOut(fc, dl, <<EvPeerDiscChat, EvPeerDiscStatus>>, <<>>)
  ELSE IF HasKey(f, "username_announce") /\ f.username_announce # ""
    THEN MsgOut(fc, dl, <<EvPeerName(f.username_announce)>>, <<>>)
  ELSE IF HasKey(f, "msg") /\ f.msg # ""
    THEN MsgOut(fc, dl, <<EvChat(IF HasKey(f, "username") THEN f.username ELSE "peer",
                                 f.msg)>>, <<>>)
  ELSE MsgOut(fc, dl, <<>>, <<>>)

\* the loop thread runs _msg on frame f at session s
OnMessage(s, f) ==
  LET r == MsgResult(file_chunks[s], downloads[s], f)
  IN /\ file_chunks' = [file_chunks EXCEPT ![s] = r.fc]
     /\ downloads' = [downloads EXCEPT ![s] = r.dl]
     /\ gui' = IF r.gui = <<>> THEN gui ELSE [gui EXCEPT ![s] = r.gui]
     /\ delivered' = [delivered EXCEPT ![s] = @ \o r.deliv]

(***************************************************************************)
(* Session state after construction, and after a completed negotiation     *)
(***************************************************************************)
Idle == [op |-> "idle"]
\* self.dc is None
NoDc == 0
\* no offer attempt scheduled yet
NoTimers == [pending |-> 0, returned |-> 0]
\* no send_file call made yet
NoSend == [raw |-> <<>>, now |-> 0, name |-> "", seen |-> "none"]
NoChan == [l |-> "none", r |-> "none", rwired |-> FALSE]

NoDisc == [n |-> 0, posts |-> <<>>, open |-> FALSE]

\* the history variables start empty
InitHist ==
  /\ called = [s \in Sessions |-> <<>>]
  /\ clicks = [s \in Sessions |-> <<>>]
  /\ discCalls = [s \in Sessions |-> 0]
  /\ discLog = [s \in Sessions |-> NoDisc]
  /\ sigLog = [s \in Sessions |-> <<>>]

InitSessVars ==
  /\ ready = [s \in Sessions |-> FALSE]
  /\ peer_ready = [s \in Sessions |-> FALSE]
  /\ offer_sent = [s \in Sessions |-> FALSE]
  /\ offer_received = [s \in Sessions |-> FALSE]
  /\ closed = [s \in Sessions |-> FALSE]
  /\ ws = [s \in Sessions |-> None]
  /\ dc = [s \in Sessions |-> NoDc]
  /\ pending_msgs = [s \in Sessions |-> <<>>]
  /\ file_chunks = [s \in Sessions |-> <<>>]
  /\ pcState = [s \in Sessions |-> "stable"]
  /\ onDc = [s \in Sessions |-> FALSE]
  /\ chan = [s \in Sessions |-> NoChan]
  /\ chanIn = [s \in Sessions |-> <<>>]
  /\ loopq = [s \in Sessions |-> <<>>]
  /\ lpc = [s \in Sessions |-> Idle]
  /\ cpc = [s \in Sessions |-> Idle]
  /\ gui = [s \in Sessions |-> <<>>]
  /\ downloads = [s \in Sessions |-> <<>>]
  /\ disk = [s \in Sessions |-> <<>>]
  /\ clock = 0
  /\ sentLog = [s \in Sessions |-> <<>>]
  /\ sfLog = [s \in Sessions |-> NoSend]
  /\ delivered = [s \in Sessions |-> <<>>]
  /\ reordered = [s \in Sessions |-> FALSE]
  /\ ninj = 0
  /\ run = [s \in Sessions |-> "connect"]
  /\ otask = [s \in Sessions |-> "none"]
  /\ disctask = [s \in Sessions |-> "none"]
  /\ timers = [s \in Sessions |-> NoTimers]
  /\ linked = FALSE
  /\ InitHist

\* Both sessions joined room "one" and clicked ready, session 1 sent the
\* offer and created the channel, session 2 answered and was handed the
\* channel; the channel's readyState is st at both ends.  senderDisk is the
\* file system of session 1's caller, wire the frames in transit to session 2.
InitNegotiated(st, senderDisk, wire) ==
  /\ ROOMS = [r \in {"one"} |-> {1, 2}]
  /\ hroom = [c \in Conns |-> IF c \in Sessions THEN "one" ELSE None]
  /\ hstate = [c \in Conns |-> IF c \in Sessions THEN "open" ELSE "new"]
  /\ toRelay = [c \in Conns |-> <<>>]
  /\ inbox = [c \in Conns |-> <<>>]
  /\ nrelay = 0
  /\ lastRelay = NoRelay
  /\ ready = [s \in Sessions |-> TRUE]
  /\ peer_ready = [s \in Sessions |-> TRUE]
  /\ offer_sent = [s \in Sessions |-> s = 1]
  /\ offer_received = [s \in Sessions |-> s = 2]
  /\ closed = [s \in Sessions |-> FALSE]
  /\ ws = [s \in Sessions |-> "ws"]
  /\ dc = [s \in Sessions |-> IF s = 1 \/ st = "open" THEN 1 ELSE NoDc]
  /\ pending_msgs = [s \in Sessions |-> <<>>]
  /\ file_chunks = [s \in Sessions |-> <<>>]
  /\ pcState = [s \in Sessions |-> "stable"]
  /\ onDc = [s \in Sessions |-> s = 2]
  /\ chan = [s \in Sessions |->
               IF s = 1 THEN [l |-> st, r |-> IF st = "open" THEN "open" ELSE "none",
                              rwired |-> st = "open"]
               ELSE NoChan]
  /\ chanIn = [s \in Sessions |-> IF s = 2 THEN wire ELSE <<>>]
  /\ loopq = [s \in Sessions |-> <<>>]
  /\ lpc = [s \in Sessions |-> Idle]
  /\ cpc = [s \in Sessions |-> Idle]
  /\ gui = [s \in Sessions |-> <<>>]
  /\ downloads = [s \in Sessions |-> <<>>]
  /\ disk = [s \in Sessions |-> IF s = 1 THEN senderDisk ELSE <<>>]
  /\ clock = 0
  /\ sentLog = [s \in Sessions |-> <<>>]
  /\ sfLog = [s \in Sessions |-> NoSend]
  /\ delivered = [s \in Sessions |-> <<>>]
  /\ reordered = [s \in Sessions |-> FALSE]
  /\ ninj = 0
  /\ run = [s \in Sessions |-> "recv"]
  /\ otask = [s \in Sessions |-> "none"]
  /\ disctask = [s \in Sessions |-> "none"]
  /\ timers = [s \in Sessions |-> NoTimers]
  /\ linked = TRUE
  /\ InitHist

(***************************************************************************)
(* The channel ends                                                        *)
(***************************************************************************)
\* readyState of session s's end of the channel created by c
EndState(s, c) == IF c = s THEN chan[c].l ELSE chan[c].r
\* whether session s has wired its end of the channel created by c
EndWired(s, c) == IF c = s THEN chan[c].l # "none" ELSE chan[c].rwired
\* self.dc and self.dc.readyState == "open"
DcIsOpen(s) == dc[s] # NoDc /\ EndState(s, dc[s]) = "open"

\* what `self.dc and self.dc.readyState` reads
ReadyStateSeen(s) == IF dc[s] = NoDc THEN "none" ELSE EndState(s, dc[s])

\* an entry of chanIn: a frame and the channel it travels on
OnWire(c, f) == [ch |-> c, frame |-> f]

(***************************************************************************)
(* send_file, on the caller thread                                         *)
(***************************************************************************)
\* time.time(), read once before the loop
CaptureTime(s) == clock

\* up to the for loop: the isfile test, the read, the chunk list, total, now
SendFileBegin(s, path) ==
  /\ cpc[s].op = "idle"
  /\ sfLog[s] = NoSend
  /\ IF path \notin DOMAIN disk[s]
       THEN UNCHANGED <<cpc, sfLog>>
       ELSE LET raw == disk[s][path]
                chunks == Chunks(raw, ChunkBound)
            IN /\ sfLog' = [sfLog EXCEPT ![s] = [raw |-> raw, now |-> clock, name |-> path,
                                                 seen |-> ReadyStateSeen(s)]]
               /\ cpc' = [cpc EXCEPT ![s] =
                            IF Len(chunks) = 0 THEN Idle
                            ELSE [op |-> "send_file", name |-> path, ext |-> ExtOf(path),
                                  chunks |-> chunks, total |-> Len(chunks),
                                  now |-> CaptureTime(s), i |-> 0]]
  /\ UNCHANGED <<relayVars, coVars, histVars, flagVars, negVars, chanVars, pending_msgs, loopq, lpc,
                 sentLog, recvVars, disk, clock, reordered, ninj>>

\* one iteration of `for i, chunk in enumerate(chunks)`
SendFileStep(s) ==
  /\ cpc[s].op = "send_file"
  /\ LET c == cpc[s]
         frame == FileChunkFrame(c.name, c.ext, c.i, c.total,
                                 B64Encode(c.chunks[c.i + 1]), c.now)
     IN /\ loopq' = IF DcIsOpen(s)
                      THEN [loopq EXCEPT ![s] =
                              Append(@, [cb |-> "dc.send", ch |-> dc[s], frame |-> frame])]
                      ELSE loopq
        /\ cpc' = [cpc EXCEPT ![s] =
                     IF c.i + 1 = c.total THEN Idle ELSE [c EXCEPT !.i = c.i + 1]]
  /\ UNCHANGED <<relayVars, coVars, histVars, flagVars, negVars, chanVars, pending_msgs, lpc, sentLog,
                 fileVars>>

(***************************************************************************)
(* The loop thread                                                         *)
(***************************************************************************)
\* what dc.send does on an open end: the frames go out in order
DcSendOpen(s, c, frames) ==
  /\ sentLog' = [sentLog EXCEPT ![s] = @ \o frames]
  /\ chanIn' = [chanIn EXCEPT ![Peer(s)] =
                  @ \o [i \in 1..Len(frames) |-> OnWire(c, frames[i])]]

\* dc.send(frame) on session s's end of channel c.  On an end that is not
\* open it raises and nothing is sent.
DcSend(s, c, frames) ==
  IF EndState(s, c) = "open"
    THEN DcSendOpen(s, c, frames)
    ELSE UNCHANGED <<sentLog, chanIn>>

\* a task created for ws.send(frame): the frame is written to the relay
\* connection; on a missing or closed connection the task fails and nothing
\* is written
WsSend(s, f) ==
  IF ws[s] # None /\ hstate[s] = "open"
    THEN /\ toRelay' = [toRelay EXCEPT ![s] = Append(@, f)]
         /\ sigLog' = [sigLog EXCEPT ![s] = Append(@, f.type)]
    ELSE UNCHANGED <<toRelay, sigLog>>

\* `if self.closed: return` in _disc
DiscGuardNone(s) == TRUE
DiscGuard(s) == ~closed[s]

EvDiscChat == [kind |-> "chat", ev |-> "----disconnected----"]
EvDiscStatus == [kind |-> "status", ev |-> "Disconnected"]
DisconnectFrame == [system |-> "disconnect"]

\* _disc up to its first await: the closed test, the disconnect frame on an
\* open channel, the two events, the closed flag
DiscBegin(s) ==
  IF DiscGuard(s)
    THEN /\ IF DcIsOpen(s)
              THEN DcSendOpen(s, dc[s], <<DisconnectFrame>>)
              ELSE UNCHANGED <<sentLog, chanIn>>
         /\ gui' = [gui EXCEPT ![s] = <<EvDiscChat, EvDiscStatus>>]
         /\ discLog' = [discLog EXCEPT ![s] =
                          [n |-> @.n + 1,
                           posts |-> @.posts \o <<EvDiscChat, EvDiscStatus>>,
                           open |-> @.open \/ DcIsOpen(s)]]
         /\ closed' = [closed EXCEPT ![s] = TRUE]
         /\ disctask' = [disctask EXCEPT ![s] = "pc.close"]
    ELSE UNCHANGED <<sentLog, chanIn, gui, discLog, closed, disctask>>

\* the loop runs the next callback queued by call_soon_threadsafe
LoopCallback(s) ==
  /\ lpc[s].op = "idle"
  /\ loopq[s] # <<>>
  /\ LET cb == Head(loopq[s])
     IN CASE cb.cb = "dc.send" ->
               /\ DcSend(s, cb.ch, <<cb.frame>>)
               /\ UNCHANGED <<toRelay, sigLog, gui, discLog, closed, disctask>>
          [] cb.cb = "ws.send" ->
               /\ WsSend(s, cb.frame)
               /\ UNCHANGED <<sentLog, chanIn, gui, discLog, closed, disctask>>
          [] cb.cb = "disc" ->
               /\ DiscBegin(s)
               /\ UNCHANGED <<toRelay, sigLog>>
  /\ loopq' = [loopq EXCEPT ![s] = Tail(@)]
  /\ UNCHANGED <<ROOMS, hroom, hstate, inbox, nrelay, lastRelay, run, otask, timers,
                 linked, called, clicks, discCalls, ready, peer_ready, offer_sent,
                 offer_received, negVars, dc, chan, pending_msgs, lpc, cpc,
                 file_chunks, downloads, delivered, disk, clock, sfLog, reordered, ninj>>

\* the channel hands frame number i in transit to session s to _msg; an end
\* that was never wired has no handler and the frame is dropped
RecvAt(s, i) ==
  /\ lpc[s].op = "idle"
  /\ i \in 1..Len(chanIn[s])
  /\ EndState(s, chanIn[s][i].ch) = "open"
  /\ LET e == chanIn[s][i]
         f == e.frame
     IN /\ chanIn' = [chanIn EXCEPT ![s] =
                        SubSeq(@, 1, i - 1) \o SubSeq(@, i + 1, Len(@))]
        /\ IF EndWired(s, e.ch)
             THEN /\ OnMessage(s, f)
                  /\ reordered' =
                       [reordered EXCEPT ![s] =
                          @ \/ /\ HasKey(f, "type") /\ f.type = "file_chunk"
                               /\ f.filename \in DOMAIN file_chunks[s]
                               /\ \E j \in DOMAIN file_chunks[s][f.filename].chunks :
                                     j > f.chunk_id]
             ELSE UNCHANGED <<recvVars, reordered>>
  /\ UNCHANGED <<relayVars, coVars, histVars, flagVars, negVars, dc, chan, chatVars, disk, clock, sfLog,
                 ninj>>

\* the peer sends an arbitrary frame and the channel hands it to _msg
Inject(s, f) ==
  /\ ninj < MaxFrames
  /\ ninj' = ninj + 1
  /\ OnMessage(s, f)
  /\ UNCHANGED <<relayVars, coVars, histVars, flagVars, negVars, chanVars, chatVars, disk, clock, sfLog,
                 reordered>>

\* time passes
Tick ==
  /\ clock < MaxClock
  /\ clock' = clock + 1
  /\ UNCHANGED <<relayVars, coVars, histVars, flagVars, negVars, chanVars, chatVars, recvVars, disk,
                 sfLog, reordered, ninj>>

\* the transport closes the channel created by c: both ends become "closed"
\* and lose their handlers, frames still in transit on it are not handed over
DcClose(c) ==
  /\ chan[c].l \in {"connecting", "open"}
  /\ \A s \in Sessions : lpc[s].op = "idle"
  /\ chan' = [chan EXCEPT ![c] = [l |-> "closed",
                                  r |-> IF @.r = "none" THEN "none" ELSE "closed",
                                  rwired |-> @.rwired]]
  /\ chanIn' = [s \in Sessions |-> SelectSeq(chanIn[s], LAMBDA e : e.ch # c)]
  /\ UNCHANGED <<relayVars, coVars, histVars, flagVars, negVars, dc, chatVars, fileVars>>

(***************************************************************************)
(* send_message and disconnect on the caller thread, the open handler and  *)
(* the _disc task on the loop thread                                       *)
(***************************************************************************)
Username(s) == IF s = 1 THEN "alice" ELSE "bob"
Texts == {"a", "b"}

AnnounceFrame(s) == [username_announce |-> Username(s)]
ChatFrame(s, txt) == [username |-> Username(s), msg |-> txt]
EvChannelOpen == [kind |-> "status", ev |-> "-- channel open --"]


\* `if not txt`: the empty string and None (no text) are falsy
IsEmptyTextNever(txt) == FALSE
IsEmptyText(txt) == txt = "" \/ txt = None

\* send_message up to the test of the channel: `if not txt: return`, then
\* `self.dc and self.dc.readyState == "open"`
SendMessageCheck(s, txt) ==
  /\ cpc[s].op = "idle"
  /\ Len(called[s]) < MaxMsgs
  /\ called' = [called EXCEPT ![s] = Append(@, [txt |-> txt, seen |-> ReadyStateSeen(s)])]
  /\ IF IsEmptyText(txt)
       THEN UNCHANGED cpc
       ELSE cpc' = [cpc EXCEPT ![s] =
                      [op |-> "send_message", txt |-> txt, open |-> DcIsOpen(s)]]
  /\ UNCHANGED <<relayVars, coVars, clicks, discCalls, discLog, sigLog, flagVars,
                 negVars, chanVars, pending_msgs, loopq, lpc, sentLog, fileVars>>

\* the branch send_message took: call_soon_threadsafe(self.dc.send, frame),
\* or self.pending_msgs.append(txt)
SendMessageAct(s) ==
  /\ cpc[s].op = "send_message"
  /\ IF cpc[s].open
       THEN /\ loopq' = [loopq EXCEPT ![s] =
                           Append(@, [cb |-> "dc.send", ch |-> dc[s],
                                      frame |-> ChatFrame(s, cpc[s].txt)])]
            /\ UNCHANGED pending_msgs
       ELSE /\ pending_msgs' = [pending_msgs EXCEPT ![s] = Append(@, cpc[s].txt)]
            /\ UNCHANGED loopq
  /\ cpc' = [cpc EXCEPT ![s] = Idle]
  /\ UNCHANGED <<relayVars, coVars, histVars, flagVars, negVars, chanVars, lpc,
                 sentLog, fileVars>>

\* the transport brings up the channel created by c: readyState becomes
\* "open" and the open event runs _open up to its for loop
ChannelOpen(c) ==
  /\ linked
  /\ chan[c].l = "connecting"
  /\ \A s \in Sessions : pcState[s] # "closed"
  /\ lpc[c].op = "idle"
  /\ chan' = [chan EXCEPT ![c].l = "open"]
  /\ gui' = [gui EXCEPT ![c] = <<EvChannelOpen>>]
  /\ DcSendOpen(c, c, <<AnnounceFrame(c)>>)
  /\ lpc' = [lpc EXCEPT ![c] = [op |-> "_open", ch |-> c, i |-> 0]]
  /\ UNCHANGED <<relayVars, coVars, histVars, flagVars, negVars, dc, pending_msgs,
                 loopq, cpc, file_chunks, downloads, delivered, disk, clock, sfLog,
                 reordered, ninj>>

\* `for txt in self.pending_msgs`: the list iterator hands over the next
\* element and dc.send sends it, or finds none left
FlushItemReversed(s) == pending_msgs[s][Len(pending_msgs[s]) - lpc[s].i]
FlushItem(s) == pending_msgs[s][lpc[s].i + 1]

OpenFlushStep(s) ==
  /\ lpc[s].op = "_open"
  /\ IF lpc[s].i < Len(pending_msgs[s])
       THEN /\ DcSend(s, lpc[s].ch, <<ChatFrame(s, FlushItem(s))>>)
            /\ lpc' = [lpc EXCEPT ![s].i = @ + 1]
       ELSE /\ lpc' = [lpc EXCEPT ![s] = [op |-> "_open_clear"]]
            /\ UNCHANGED <<sentLog, chanIn>>
  /\ UNCHANGED <<relayVars, coVars, histVars, flagVars, negVars, dc, chan,
                 pending_msgs, loopq, cpc, fileVars>>

\* self.pending_msgs.clear(), the last statement of _open
OpenClear(s) ==
  /\ lpc[s].op = "_open_clear"
  /\ pending_msgs' = [pending_msgs EXCEPT ![s] = <<>>]
  /\ lpc' = [lpc EXCEPT ![s] = Idle]
  /\ UNCHANGED <<relayVars, coVars, histVars, flagVars, negVars, chanVars, loopq,
                 cpc, sentLog, fileVars>>

\* disconnect(): call_soon_threadsafe(asyncio.create_task, _disc())
Disconnect(s) ==
  /\ cpc[s].op = "idle"
  /\ discCalls[s] < MaxDisc
  /\ discCalls' = [discCalls EXCEPT ![s] = @ + 1]
  /\ loopq' = [loopq EXCEPT ![s] = Append(@, [cb |-> "disc"])]
  /\ UNCHANGED <<relayVars, coVars, called, clicks, discLog, sigLog, flagVars,
                 negVars, chanVars, pending_msgs, lpc, cpc, sentLog, fileVars>>

\* `await self.pc.close()` completes: the pc is closed and with it every
\* channel of the connection, at both ends
DiscPcClose(s) ==
  /\ disctask[s] = "pc.close"
  /\ \A t \in Sessions : lpc[t].op = "idle"
  /\ pcState' = [pcState EXCEPT ![s] = "closed"]
  /\ chan' = [c \in Sessions |->
               IF chan[c].l \in {"connecting", "open"}
                 THEN [l |-> "closed",
                       r |-> IF chan[c].r = "none" THEN "none" ELSE "closed",
                       rwired |-> chan[c].rwired]
                 ELSE chan[c]]
  /\ chanIn' = [t \in Sessions |-> <<>>]
  /\ disctask' = [disctask EXCEPT ![s] = "ws.close"]
  /\ UNCHANGED <<relayVars, run, otask, timers, linked, histVars, flagVars, ws, onDc,
                 dc, chatVars, fileVars>>

\* `if self.ws: await self.ws.close()`, then `self.ws = None`
DiscWsClose(s) ==
  /\ disctask[s] = "ws.close"
  /\ lpc[s].op = "idle"
  /\ IF ws[s] # None /\ hstate[s] = "open" THEN Drop(s) ELSE UNCHANGED relayVars
  /\ ws' = [ws EXCEPT ![s] = None]
  /\ disctask' = [disctask EXCEPT ![s] = "done"]
  /\ UNCHANGED <<run, otask, timers, linked, histVars, flagVars, pcState, onDc,
                 chanVars, chatVars, fileVars>>

(***************************************************************************)
(* SpecChat: session 1 created the channel and the offer/answer exchange   *)
(* is over; its caller sends chat messages and disconnects at any time     *)
(* while the loop brings the channel up, flushes, and tears down.          *)
(***************************************************************************)
InitChat == InitNegotiated("connecting", <<>>, <<>>)

NextChat ==
  \/ \E txt \in Texts \cup {"", None} : SendMessageCheck(1, txt)
  \/ SendMessageAct(1)
  \/ ChannelOpen(1)
  \/ OpenFlushStep(1)
  \/ OpenClear(1)
  \/ LoopCallback(1)
  \/ DcClose(1)
  \/ Disconnect(1)
  \/ DiscPcClose(1)
  \/ DiscWsClose(1)

SpecChat == InitChat /\ [][NextChat]_vars

(***************************************************************************)
(* Signalling: click_ready on the caller thread; _run, the offer timer and *)
(* the _try_send_offer task on the loop thread                             *)
(***************************************************************************)
FIXED_ROOM == "one"
EvStatus(text) == [kind |-> "status", ev |-> text]

\* what a coroutine's own `await ws.send(frame)` does: the frame is written,
\* or the send raises on a connection that is closed
CanSend(s) == ws[s] # None /\ hstate[s] = "open"

\* click_ready()
ClickReady(s) ==
  /\ cpc[s].op = "idle"
  /\ Len(clicks[s]) < MaxClicks
  /\ clicks' = [clicks EXCEPT ![s] = Append(@, [ws |-> ws[s]])]
  /\ ready' = [ready EXCEPT ![s] = TRUE]
  /\ gui' = [gui EXCEPT ![s] = <<EvStatus("You are ready")>>]
  /\ loopq' = IF ws[s] # None
                THEN [loopq EXCEPT ![s] =
                        Append(@, [cb |-> "ws.send",
                                   frame |-> RelayFrame("ready", FIXED_ROOM, 0)])]
                ELSE loopq
  /\ UNCHANGED <<relayVars, coVars, called, discCalls, discLog, sigLog, peer_ready,
                 offer_sent, offer_received, closed, negVars, chanVars, pending_msgs,
                 lpc, cpc, sentLog, file_chunks, downloads, delivered, disk, clock,
                 sfLog, reordered, ninj>>

\* _run: websockets.connect, self.ws = ws, the join frame
RunConnect(s) ==
  /\ run[s] = "connect"
  /\ lpc[s].op = "idle"
  /\ hstate[s] = "new"
  /\ hstate' = [hstate EXCEPT ![s] = "open"]
  /\ ws' = [ws EXCEPT ![s] = "ws"]
  /\ toRelay' = [toRelay EXCEPT ![s] = Append(@, RelayFrame("join", FIXED_ROOM, 0))]
  /\ sigLog' = [sigLog EXCEPT ![s] = Append(@, "join")]
  /\ run' = [run EXCEPT ![s] = "joined"]
  /\ UNCHANGED <<ROOMS, hroom, inbox, nrelay, lastRelay, otask, disctask, timers, linked, called, clicks, discCalls, discLog,
                 flagVars, pcState, onDc, chanVars, chatVars, fileVars>>

\* _run: `if self.ready: await ws.send(ready)`, then the read loop starts
\* `if self.ready` in _run, after the join frame
ReadyRequestedNever(s) == FALSE
ReadyRequested(s) == ready[s]

RunReadyCheck(s) ==
  /\ run[s] = "joined"
  /\ lpc[s].op = "idle"
  /\ IF ReadyRequested(s)
       THEN IF CanSend(s)
              THEN /\ WsSend(s, RelayFrame("ready", FIXED_ROOM, 0))
                   /\ run' = [run EXCEPT ![s] = "recv"]
              ELSE /\ run' = [run EXCEPT ![s] = "failed"]
                   /\ UNCHANGED <<toRelay, sigLog>>
       ELSE /\ run' = [run EXCEPT ![s] = "recv"]
            /\ UNCHANGED <<toRelay, sigLog>>
  /\ UNCHANGED <<ROOMS, hroom, hstate, inbox, nrelay, lastRelay, otask, disctask,
                 timers, linked, called, clicks, discCalls, discLog, flagVars, negVars,
                 chanVars, chatVars, fileVars>>

\* _maybe_begin_offer_race, with peer_ready already set
RaceBeginsUnready(s) == ~(offer_sent[s] \/ offer_received[s])
RaceBegins(s) == ready[s] /\ ~(offer_sent[s] \/ offer_received[s])

\* `if self.offer_received or self.offer_sent: return` in _try_send_offer
OfferGuardSentOnly(s) == ~offer_sent[s]
OfferGuard(s) == ~(offer_received[s] \/ offer_sent[s])

\* the signalling states in which a pc accepts a description
\* (RTCPeerConnection: anything else raises InvalidStateError)
AcceptsRemote(st, type) ==
  IF type = "offer" THEN st \in {"stable", "have-remote-offer"}
  ELSE st = "have-local-offer"
AcceptsLocal(st, type) ==
  IF type = "offer" THEN st \in {"stable", "have-local-offer"}
  ELSE st = "have-remote-offer"

\* one iteration of `async for raw in ws` in _run, up to the first await
\* that suspends.  msg["data"] raises on an offer or answer without data,
\* as setRemoteDescription does on one the pc does not accept.
RunRecv(s) ==
  /\ run[s] = "recv"
  /\ lpc[s].op = "idle"
  /\ inbox[s] # <<>>
  /\ inbox' = [inbox EXCEPT ![s] = Tail(@)]
  /\ LET t == Head(inbox[s]).type
     IN CASE t = "ready" ->
               /\ peer_ready' = [peer_ready EXCEPT ![s] = TRUE]
               /\ gui' = [gui EXCEPT ![s] = <<EvStatus("Peer is ready.")>>]
               /\ timers' = [timers EXCEPT ![s].pending = IF RaceBegins(s) THEN @ + 1 ELSE @]
               /\ UNCHANGED <<offer_received, pcState, linked, run>>
          [] t = "offer" ->
               /\ offer_received' = [offer_received EXCEPT ![s] = TRUE]
               /\ IF HasKey(Head(inbox[s]), "data") /\ AcceptsRemote(pcState[s], "offer")
                    THEN /\ pcState' = [pcState EXCEPT ![s] = "have-remote-offer"]
                         /\ run' = [run EXCEPT ![s] = "answering"]
                    ELSE /\ run' = [run EXCEPT ![s] = "failed"]
                         /\ UNCHANGED pcState
               /\ UNCHANGED <<peer_ready, gui, timers, linked>>
          [] t = "answer" ->
               /\ IF HasKey(Head(inbox[s]), "data") /\ AcceptsRemote(pcState[s], "answer")
                    THEN /\ pcState' = [pcState EXCEPT ![s] = "stable"]
                         /\ linked' = TRUE
                         /\ gui' = [gui EXCEPT ![s] = <<EvStatus("Answer accepted")>>]
                         /\ UNCHANGED run
                    ELSE /\ run' = [run EXCEPT ![s] = "failed"]
                         /\ UNCHANGED <<pcState, linked, gui>>
               /\ UNCHANGED <<peer_ready, offer_received, timers>>
          [] OTHER ->
               UNCHANGED <<peer_ready, offer_received, pcState, linked, gui, timers, run>>
  /\ UNCHANGED <<ROOMS, hroom, hstate, toRelay, nrelay, lastRelay, otask, disctask,
                 histVars, ready, offer_sent, closed, ws, onDc, chanVars, chatVars,
                 file_chunks, downloads, delivered, disk, clock, sfLog, reordered, ninj>>

\* _handle_offer after setRemoteDescription: the datachannel handler, the
\* answer as local description, the answer frame
RunAnswer(s) ==
  /\ run[s] = "answering"
  /\ lpc[s].op = "idle"
  /\ onDc' = [onDc EXCEPT ![s] = TRUE]
  /\ IF AcceptsLocal(pcState[s], "answer")
       THEN /\ pcState' = [pcState EXCEPT ![s] = "stable"]
            /\ IF CanSend(s)
                 THEN /\ WsSend(s, RelayFrame("answer", FIXED_ROOM, 0))
                      /\ gui' = [gui EXCEPT ![s] = <<EvStatus("Answer sent")>>]
                      /\ run' = [run EXCEPT ![s] = "recv"]
                 ELSE /\ run' = [run EXCEPT ![s] = "failed"]
                      /\ UNCHANGED <<toRelay, sigLog, gui>>
       ELSE /\ run' = [run EXCEPT ![s] = "failed"]
            /\ UNCHANGED <<pcState, toRelay, sigLog, gui>>
  /\ UNCHANGED <<ROOMS, hroom, hstate, inbox, nrelay, lastRelay, otask, disctask,
                 timers, linked, called, clicks, discCalls, discLog, flagVars, ws,
                 chanVars, chatVars, file_chunks, downloads, delivered, disk, clock,
                 sfLog, reordered, ninj>>

\* an exception left `async with`: the connection is closed, the except and
\* finally blocks post their status events and _run ends
RunFail(s) ==
  /\ run[s] = "failed"
  /\ lpc[s].op = "idle"
  /\ IF hstate[s] = "open" THEN Drop(s) ELSE UNCHANGED relayVars
  /\ gui' = [gui EXCEPT ![s] = <<EvStatus("Signalling error"),
                                  EvStatus("Signalling connection closed")>>]
  /\ run' = [run EXCEPT ![s] = "done"]
  /\ UNCHANGED <<otask, disctask, timers, linked, histVars, flagVars, negVars,
                 chanVars, chatVars, file_chunks, downloads, delivered, disk, clock,
                 sfLog, reordered, ninj>>

\* the relay connection was closed under the read loop: `async for` ends,
\* the finally block posts its status event
RunClosed(s) ==
  /\ run[s] = "recv"
  /\ lpc[s].op = "idle"
  /\ hstate[s] \in {"dropped", "done"}
  /\ gui' = [gui EXCEPT ![s] = <<EvStatus("Signalling connection closed")>>]
  /\ run' = [run EXCEPT ![s] = "done"]
  /\ UNCHANGED <<relayVars, otask, disctask, timers, linked, histVars, flagVars,
                 negVars, chanVars, chatVars, file_chunks, downloads, delivered, disk,
                 clock, sfLog, reordered, ninj>>

\* the call_later timer fires: _try_send_offer up to the await that suspends
\* (createDataChannel, _wire_dc, createOffer, setLocalDescription)
TimerFire(s) ==
  /\ timers[s].pending > 0
  /\ lpc[s].op = "idle"
  /\ IF OfferGuard(s)
       THEN /\ offer_sent' = [offer_sent EXCEPT ![s] = TRUE]
            /\ dc' = [dc EXCEPT ![s] = s]
            /\ chan' = [chan EXCEPT ![s] =
                           IF @.l = "none" THEN [@ EXCEPT !.l = "connecting"] ELSE @]
            /\ IF AcceptsLocal(pcState[s], "offer")
                 THEN /\ pcState' = [pcState EXCEPT ![s] = "have-local-offer"]
                      /\ otask' = [otask EXCEPT ![s] = "send"]
                 ELSE UNCHANGED <<pcState, otask>>
            /\ timers' = [timers EXCEPT ![s].pending = @ - 1]
       ELSE /\ timers' = [timers EXCEPT ![s].pending = @ - 1, ![s].returned = @ + 1]
            /\ UNCHANGED <<offer_sent, dc, chan, pcState, otask>>
  /\ UNCHANGED <<relayVars, run, disctask, linked, histVars, ready, peer_ready,
                 offer_received, closed, ws, onDc, chanIn, chatVars, fileVars>>

\* _try_send_offer after setLocalDescription: the offer frame
OfferSend(s) ==
  /\ otask[s] = "send"
  /\ lpc[s].op = "idle"
  /\ otask' = [otask EXCEPT ![s] = "none"]
  /\ WsSend(s, RelayFrame("offer", FIXED_ROOM, 0))
  /\ gui' = IF CanSend(s) THEN [gui EXCEPT ![s] = <<EvStatus("Offer sent")>>] ELSE gui
  /\ UNCHANGED <<ROOMS, hroom, hstate, inbox, nrelay, lastRelay, run, disctask,
                 timers, linked, called, clicks, discCalls, discLog, flagVars, negVars,
                 chanVars, chatVars, file_chunks, downloads, delivered, disk, clock,
                 sfLog, reordered, ninj>>

\* the peer's pc hands over the channel created by c, already open:
\* _on_dc sets self.dc and wires it, if _handle_offer has registered _on_dc
Surface(c) ==
  /\ chan[c].l = "open"
  /\ chan[c].r = "none"
  /\ lpc[Peer(c)].op = "idle"
  /\ chan' = [chan EXCEPT ![c] = [@ EXCEPT !.r = "open", !.rwired = onDc[Peer(c)]]]
  /\ dc' = IF onDc[Peer(c)] THEN [dc EXCEPT ![Peer(c)] = c] ELSE dc
  /\ UNCHANGED <<relayVars, coVars, histVars, flagVars, negVars, chanIn, chatVars,
                 fileVars>>

(***************************************************************************)
(* SpecNeg: two sessions connect to the relay, click ready and negotiate.  *)
(***************************************************************************)
InitNeg ==
  /\ InitRelayVars
  /\ InitSessVars

NextNeg ==
  \E s \in Sessions :
    \/ ClickReady(s)
    \/ RunConnect(s)
    \/ RunReadyCheck(s)
    \/ RunRecv(s)
    \/ RunAnswer(s)
    \/ RunFail(s)
    \/ RunClosed(s)
    \/ TimerFire(s)
    \/ OfferSend(s)
    \/ LoopCallback(s)
    \/ HandlerStep(s) /\ UNCHANGED sessVars
    \/ HandlerExit(s) /\ UNCHANGED sessVars
    \/ ChannelOpen(s)
    \/ OpenFlushStep(s)
    \/ OpenClear(s)
    \/ Surface(s)
    \/ \E i \in 1..Len(chanIn[s]) : RecvAt(s, i)

SpecNeg == InitNeg /\ [][NextNeg]_vars

(***************************************************************************)
(* SpecSig: session 1 against the relay and a peer (connection 2) that     *)
(* sends whatever frames it likes; either connection may be lost.          *)
(***************************************************************************)
\* the frames of the peer: well-formed ones, and an offer without data
SigFrames ==
  {RelayFrame(t, FIXED_ROOM, 0) : t \in {"join", "ready", "offer", "answer"}}
    \cup {[type |-> "offer", room |-> FIXED_ROOM]}

InitSig ==
  /\ InitRelayVars
  /\ InitSessVars

NextSig ==
  \/ ClickReady(1)
  \/ RunConnect(1)
  \/ RunReadyCheck(1)
  \/ RunRecv(1)
  \/ RunAnswer(1)
  \/ RunFail(1)
  \/ RunClosed(1)
  \/ TimerFire(1)
  \/ OfferSend(1)
  \/ LoopCallback(1)
  \/ HandlerStep(1) /\ UNCHANGED sessVars
  \/ Connect(2) /\ UNCHANGED sessVars
  \/ (\E f \in SigFrames : ClientFrame(2, f)) /\ UNCHANGED sessVars
  \/ (\E c \in Sessions : Drop(c)) /\ UNCHANGED sessVars
  \/ (\E c \in Sessions : HandlerExit(c)) /\ UNCHANGED sessVars

SpecSig == InitSig /\ [][NextSig]_vars

\* Session 1 against the relay while the peer joins and sends ready frames
\* and an offer; the relay connection stays up.
RaceFrames == {RelayFrame(t, FIXED_ROOM, 0) : t \in {"join", "ready", "offer"}}

InitRace ==
  /\ InitRelayVars
  /\ InitSessVars

NextRace ==
  \/ ClickReady(1)
  \/ RunConnect(1)
  \/ RunReadyCheck(1)
  \/ RunRecv(1)
  \/ RunAnswer(1)
  \/ RunFail(1)
  \/ TimerFire(1)
  \/ OfferSend(1)
  \/ LoopCallback(1)
  \/ HandlerStep(1) /\ UNCHANGED sessVars
  \/ Connect(2) /\ UNCHANGED sessVars
  \/ (\E f \in RaceFrames : ClientFrame(2, f)) /\ UNCHANGED sessVars

SpecRace == InitRace /\ [][NextRace]_vars

\* Session 1 against the relay as in SpecRace, its caller disconnecting at
\* any time: the teardown task runs among the offer attempts and the
\* frames still arriving.
InitStop ==
  /\ InitRelayVars
  /\ InitSessVars

NextStop ==
  \/ ClickReady(1)
  \/ RunConnect(1)
  \/ RunReadyCheck(1)
  \/ RunRecv(1)
  \/ RunAnswer(1)
  \/ RunFail(1)
  \/ RunClosed(1)
  \/ TimerFire(1)
  \/ OfferSend(1)
  \/ LoopCallback(1)
  \/ Disconnect(1)
  \/ DiscPcClose(1)
  \/ DiscWsClose(1)
  \/ HandlerStep(1) /\ UNCHANGED sessVars
  \/ HandlerExit(1) /\ UNCHANGED sessVars
  \/ Connect(2) /\ UNCHANGED sessVars
  \/ (\E f \in RaceFrames : ClientFrame(2, f)) /\ UNCHANGED sessVars

SpecStop == InitStop /\ [][NextStop]_vars

(***************************************************************************)
(* SpecFile: session 1's caller sends one file over the open channel;      *)
(* session 2 receives the chunk frames in whatever order the channel hands *)
(* them over.                                                              *)
(***************************************************************************)
InitFile ==
  \E raw \in SeqsUpTo(ByteVals, MaxFileLen) :
    InitNegotiated("open", [p \in {"report.PDF"} |-> raw], <<>>)

NextFile ==
  \/ \E path \in {"report.PDF", "missing.txt"} : SendFileBegin(1, path)
  \/ SendFileStep(1)
  \/ LoopCallback(1)
  \/ \E i \in 1..Len(chanIn[2]) : RecvAt(2, i)
  \/ Tick
  \/ DcClose(1)

SpecFile == InitFile /\ [][NextFile]_vars

\* send_file and send_message on the caller thread of the session that
\* created the channel, while the channel is still coming up, opens and
\* closes.
InitSend ==
  \E raw \in SeqsUpTo({97}, MaxFileLen) :
    InitNegotiated("connecting", [p \in {"report.PDF"} |-> raw], <<>>)

NextSend ==
  \/ SendMessageCheck(1, "a")
  \/ SendMessageAct(1)
  \/ SendFileBegin(1, "report.PDF")
  \/ SendFileStep(1)
  \/ ChannelOpen(1)
  \/ OpenFlushStep(1)
  \/ OpenClear(1)
  \/ LoopCallback(1)
  \/ DcClose(1)

SpecSend == InitSend /\ [][NextSend]_vars

(***************************************************************************)
(* SpecRecv: session 2's handler is fed arbitrary file_chunk frames.       *)
(***************************************************************************)
InjIds == {0, 1, 2}
InjTotals == {0, 1, 2}
InjData == {B64Encode(<<97>>), B64Encode(<<0, 255>>)}
InjectFrames ==
  {FileChunkFrame(n, ExtOf(n), id, t, d, 0) :
     n \in FileNames, id \in InjIds, t \in InjTotals, d \in InjData}

InitRecv == InitNegotiated("open", <<>>, <<>>)

NextRecv == \E f \in InjectFrames : Inject(2, f)

SpecRecv == InitRecv /\ [][NextRecv]_vars

\* The receiving handler fed frames of one file whose chunk ids repeat and
\* run past the declared total.
DupTotals == {2, 3}
DupFrames ==
  {FileChunkFrame("b.png", ExtOf("b.png"), id, t, d, 0) :
     id \in InjIds, t \in DupTotals, d \in InjData}

InitDup == InitNegotiated("open", <<>>, <<>>)

NextDup == \E f \in DupFrames : Inject(2, f)

SpecDup == InitDup /\ [][NextDup]_vars

\* The receiving handler fed frames of two files, one of which cannot be
\* written, with chunk ids that run past the declared total.
AsmTotals == {1, 2}
AsmFrames ==
  {FileChunkFrame(n, ".png", id, t, B64Encode(<<97>>), 0) :
     n \in {"b.png"} \cup Unwritable, id \in InjIds, t \in AsmTotals}

InitAsm == InitNegotiated("open", <<>>, <<>>)

NextAsm == \E f \in AsmFrames : Inject(2, f)

SpecAsm == InitAsm /\ [][NextAsm]_vars

\* Two transfers with different filenames in transit to session 2, their
\* frames handled in any order.  Chunk i of an n-chunk transfer of file k
\* carries two bytes that name k, n and i.
TwoNames == {"b.png", "report.PDF"}
TwoBase(k) == IF k = "b.png" THEN 10 ELSE 20
TwoBytes(k, n, i) == <<TwoBase(k) + n, i>>
TwoFrames(k, n) ==
  [i \in 1..n |->
     OnWire(1, FileChunkFrame(k, ExtOf(k), i - 1, n, B64Encode(TwoBytes(k, n, i - 1)), 0))]

InitTwo ==
  \E n, m \in 1..MaxTwoChunks :
    InitNegotiated("open", <<>>, TwoFrames("b.png", n) \o TwoFrames("report.PDF", m))

NextTwo == \E i \in 1..Len(chanIn[2]) : RecvAt(2, i)

SpecTwo == InitTwo /\ [][NextTwo]_vars

(***************************************************************************)
(* SpecProgress: the frames of one well-formed transfer of n chunks are in *)
(* transit to session 2, which receives them in any order.                 *)
(***************************************************************************)
TransferFrames(n) ==
  [i \in 1..n |-> OnWire(1, FileChunkFrame("b.png", ".png", i - 1, n, B64Encode(<<97>>), 0))]

InitProgress ==
  \E n \in 1..MaxProgTotal : InitNegotiated("open", <<>>, TransferFrames(n))

NextProgress == \E i \in 1..Len(chanIn[2]) : RecvAt(2, i)

SpecProgress == InitProgress /\ [][NextProgress]_vars

(***************************************************************************)
(* SpecMsg: frames of every kind are in transit to session 2, which        *)
(* receives them in any order.                                             *)
(***************************************************************************)
\* a payload json.loads raises on
BadFrame == [bad |-> TRUE]
\* a JSON object with none of the keys _msg looks for
UnknownFrame == [foo |-> 1]
\* the payloads a peer can put on the channel
MsgFrames ==
  {BadFrame, UnknownFrame, ChatFrame(1, "a"), AnnounceFrame(1), DisconnectFrame,
   FileChunkFrame("b.png", ".png", 0, 1, B64Encode(<<97>>), 0),
   FileChunkFrame("report.PDF", ".pdf", 0, 2, B64Encode(<<97>>), 0)}

InitMsg ==
  \E w \in SeqsUpTo(MsgFrames, MaxWire) :
    InitNegotiated("open", <<>>, [i \in 1..Len(w) |-> OnWire(1, w[i])])

NextMsg == \E i \in 1..Len(chanIn[2]) : RecvAt(2, i)

SpecMsg == InitMsg /\ [][NextMsg]_vars

(***************************************************************************)
(* SpecClose: the frames of one well-formed transfer are in transit to     *)
(* session 2 while its caller disconnects.                                 *)
(***************************************************************************)
InitClose ==
  \E n \in 1..MaxCloseTotal : InitNegotiated("open", <<>>, TransferFrames(n))

NextClose ==
  \/ \E i \in 1..Len(chanIn[2]) : RecvAt(2, i)
  \/ Disconnect(2)
  \/ LoopCallback(2)
  \/ DiscPcClose(2)
  \/ DiscWsClose(2)

SpecClose == InitClose /\ [][NextClose]_vars

(***************************************************************************)
(* SpecRelay: three connections whose clients send any frames in any       *)
(* order and go away at any time.                                          *)
(***************************************************************************)
InitRelay ==
  /\ InitRelayVars
  /\ InitSessVars

NextRelay ==
  /\ \E c \in Conns :
       \/ Connect(c)
       \/ \E f \in ClientFrames : ClientFrame(c, f)
       \/ Drop(c)
       \/ HandlerExit(c)
  /\ UNCHANGED sessVars

SpecRelay == InitRelay /\ [][NextRelay]_vars

(***************************************************************************)
(* Claims about the file-transfer engine                                   *)
(***************************************************************************)
\* ceil(len / size), as the claims state the chunk count
CeilDiv(len, size) == IF len % size = 0 THEN len \div size ELSE len \div size + 1

(***************************************************************************)
(* C6: whatever the order in which the chunk frames of a file are          *)
(* received, each chunk once, the bytes the receiver writes on completion  *)
(* are the sender's file bytes; and once every frame of a transfer that    *)
(* was sent in full has been received the file has been written.           *)
(***************************************************************************)
C6_ReassemblyOrderIndependent ==
  /\ \A i \in 1..Len(delivered[2]) :
       /\ delivered[2][i].name = sfLog[1].name
       /\ delivered[2][i].bytes = sfLog[1].raw
       /\ downloads[2][sfLog[1].name] = sfLog[1].raw
  /\ ( /\ sfLog[1] # NoSend
       /\ Len(sfLog[1].raw) > 0
       /\ Len(sentLog[1]) = CeilDiv(Len(sfLog[1].raw), ChunkBound)
       /\ chanIn[2] = <<>>
       /\ chan[1].l = "open" )
     => Len(delivered[2]) = 1

\* a file of three chunks was written after its chunks arrived out of order
C6_Witness ==
  /\ Len(delivered[2]) = 1
  /\ reordered[2]
  /\ Len(sfLog[1].raw) > 2 * ChunkBound
  /\ downloads[2][sfLog[1].name] = sfLog[1].raw

(***************************************************************************)
(* C7 (as claimed): for any frames received for a filename, the number of  *)
(* chunks stored for a Transfer never exceeds the total declared when it   *)
(* was created (stated here for declared totals of at least one).          *)
(***************************************************************************)
C7_StoredWithinTotal ==
  \A k \in DOMAIN file_chunks[2] :
    LET t == file_chunks[2][k]
    IN t.total >= 1 => Cardinality(DOMAIN t.chunks) <= t.total

(***************************************************************************)
(* C8 (as claimed, halves rounded up as round() reads in a formula): the   *)
(* percent surfaced with a chunk is floor(100 k / n + 1/2), where k chunk  *)
(* ids are stored of a declared total n.                                   *)
(***************************************************************************)
ProgressPosted == gui[2] # <<>> /\ gui[2][1].ev = "progress"
ProgressOpen == ProgressPosted /\ gui[2][1].name \in DOMAIN file_chunks[2]
ProgressK == Cardinality(DOMAIN file_chunks[2][gui[2][1].name].chunks)
ProgressN == file_chunks[2][gui[2][1].name].total

C8_PercentHalfUp ==
  ProgressOpen =>
    gui[2][1].percent = (200 * ProgressK + ProgressN) \div (2 * ProgressN)

(***************************************************************************)
(* C8 (amended): the percent surfaced with a chunk is the integer nearest  *)
(* to 100 k / n, a tie going to the even integer; for n = 3 the percents   *)
(* are 33, 67, 100, and the percent surfaced with the chunk that completes *)
(* a transfer is 100.                                                      *)
(***************************************************************************)
NearestTiesEven(p, num, den) ==
  LET d == 2 * (num - p * den)
  IN \/ -den < d /\ d < den
     \/ (d = den \/ d = -den) /\ p % 2 = 0

C8_PercentTiesToEven ==
  /\ ProgressOpen =>
       /\ NearestTiesEven(gui[2][1].percent, 100 * ProgressK, ProgressN)
       /\ ProgressN = 3 /\ ProgressK = 1 => gui[2][1].percent = 33
       /\ ProgressN = 3 /\ ProgressK = 2 => gui[2][1].percent = 67
  /\ (ProgressPosted /\ ~ProgressOpen) =>
       /\ gui[2][1].percent = 100
       /\ Len(gui[2]) = 3
       /\ delivered[2] # <<>>
  /\ (chanIn[2] = <<>>) => ProgressPosted /\ ~ProgressOpen

\* the first chunk of a transfer of eight: 12.5 is surfaced as 12
C8_Witness ==
  /\ ProgressOpen
  /\ ProgressN = 8
  /\ ProgressK = 1
  /\ gui[2][1].percent = 12

(***************************************************************************)
(* C9: send_file over an open channel cuts a file of L bytes into          *)
(* ceil(L / size) chunks; the frames go out in chunk_id order 0, 1, ...;   *)
(* each carries the same total and the capture time of the call; every     *)
(* chunk but the last has size bytes and the last from 1 to size; the      *)
(* payloads decode to the consecutive slices of the file; once the call    *)
(* and the loop are done with the channel still open, all of them were     *)
(* sent.  With CHUNK_SIZE, 130,000 bytes give slices of 64000, 64000 and   *)
(* 2000 bytes.                                                             *)
(***************************************************************************)
SliceLens(len, size) ==
  LET b == SliceBounds(len, size) IN [k \in DOMAIN b |-> b[k][2] - b[k][1]]

C9_SendFileChunking ==
  LET raw == sfLog[1].raw
      L == Len(raw)
      N == CeilDiv(L, ChunkBound)
      log == sentLog[1]
  IN /\ Len(log) <= N
     /\ \A i \in 1..Len(log) :
          LET dec == B64Decode(log[i].data)
          IN /\ log[i].type = "file_chunk"
             /\ log[i].filename = sfLog[1].name
             /\ log[i].ext = ".pdf"
             /\ log[i].chunk_id = i - 1
             /\ log[i].total_chunks = N
             /\ log[i].timestamp = sfLog[1].now
             /\ dec.ok
             /\ dec.bytes = SubSeq(raw, (i - 1) * ChunkBound + 1, Min(i * ChunkBound, L))
             /\ i < N => Len(dec.bytes) = ChunkBound
             /\ i = N => Len(dec.bytes) \in 1..ChunkBound
     /\ (sfLog[1] # NoSend /\ cpc[1].op = "idle" /\ loopq[1] = <<>> /\ chan[1].l = "open")
          => Len(log) = N
     /\ SliceLens(130000, CHUNK_SIZE) = <<64000, 64000, 2000>>

\* a file whose last chunk is short went out in three frames while the
\* clock moved on
C9_Witness ==
  /\ Len(sfLog[1].raw) = 2 * ChunkBound + 1
  /\ Len(sentLog[1]) = 3
  /\ clock > sfLog[1].now
  /\ cpc[1].op = "idle"

(***************************************************************************)
(* C4: every frame other than a join that the relay reads from a           *)
(* connection whose handler is in room R is handed, unmodified, to exactly *)
(* the members of R at that moment other than the sender: not to the       *)
(* sender, and to nobody outside R.                                        *)
(***************************************************************************)
C4_RelayFanOut ==
  lastRelay.from # 0 =>
    /\ lastRelay.to = lastRelay.members \ {lastRelay.from}
    /\ lastRelay.from \notin lastRelay.to
    /\ lastRelay.sent = lastRelay.raw
    /\ \A t \in lastRelay.to :
         hstate[t] = "open"
           => inbox[t] # <<>> /\ inbox[t][Len(inbox[t])] = lastRelay.raw

\* a relay step with two other members in the sender's room and a third
\* room key in the frame itself has happened
C4_Witness ==
  /\ lastRelay.from # 0
  /\ Cardinality(lastRelay.to) = 2
  /\ lastRelay.raw.room # lastRelay.room
  /\ \A t \in lastRelay.to : inbox[t] # <<>>

(***************************************************************************)
(* Claims about chat and disconnect                                        *)
(***************************************************************************)
IsAnnounce(f) == HasKey(f, "username_announce")
IsChat(f) == HasKey(f, "msg")
IsDisconnect(f) == HasKey(f, "system")
\* the msg fields of the chat frames of a log, in order
ChatMsgs(log) ==
  LET c == SelectSeq(log, IsChat) IN [i \in 1..Len(c) |-> c[i].msg]
\* the texts of the send_message calls made with a text, in call order
CalledTexts(s) ==
  LET c == SelectSeq(called[s], LAMBDA e : ~IsEmptyText(e.txt))
  IN [i \in 1..Len(c) |-> c[i].txt]
\* every send_message call so far tested the channel before it was open
AllCalledBeforeOpen(s) ==
  \A i \in 1..Len(called[s]) : called[s][i].seen \in {"none", "connecting"}
\* _open has started (the announce went out) and returned
OpenHandlerRan(s) ==
  /\ lpc[s].op = "idle"
  /\ \E i \in 1..Len(sentLog[s]) : IsAnnounce(sentLog[s][i])
\* the caller is in no call and the loop has nothing queued
Quiet(s) == cpc[s].op = "idle" /\ loopq[s] = <<>>

\* C2: when every send_message call was made before the channel was open,
\* then once the open handler has run and the caller and the loop are quiet,
\* the chat frames sent on the channel are exactly the texts of the calls,
\* in call order, each once.
C2_QueuedAllSentInOrder ==
  (OpenHandlerRan(1) /\ Quiet(1) /\ AllCalledBeforeOpen(1))
    => ChatMsgs(sentLog[1]) = CalledTexts(1)

\* C3: once the open handler of a session has run, its pending queue is
\* empty in every later state.
C3_QueueEmptyAfterOpen ==
  \A s \in Sessions : OpenHandlerRan(s) => pending_msgs[s] = <<>>

\* the disconnect frames a session has sent
DisconnectFrames(s) == Len(SelectSeq(sentLog[s], IsDisconnect))
\* what the teardowns of session s have emitted so far is what one teardown emits
OneTeardown(s) ==
  IF closed[s]
    THEN /\ discLog[s].posts = <<EvDiscChat, EvDiscStatus>>
         /\ DisconnectFrames(s) = IF discLog[s].open THEN 1 ELSE 0
    ELSE /\ discLog[s].posts = <<>>
         /\ DisconnectFrames(s) = 0
\* the loop starts a _disc task on a session that is already closed
SecondDiscRuns(s) ==
  /\ closed[s]
  /\ loopq[s] # <<>>
  /\ Head(loopq[s]).cb = "disc"
  /\ loopq'[s] = Tail(loopq[s])
\* everything but the loop's callback queue
AllButLoopq ==
  <<relayVars, coVars, histVars, flagVars, negVars, chanVars, pending_msgs, lpc, cpc,
    sentLog, fileVars>>

\* C5: disconnect is idempotent.  Whatever number of disconnect calls were
\* made and however their tasks interleave with the awaited teardown, a
\* session has emitted exactly one "----disconnected----" chat event, one
\* "Disconnected" status event and one disconnect frame (none if the channel
\* was not open) once it is closed, and nothing before; a _disc task started
\* on a closed session changes no state.
C5_DisconnectIdempotent ==
  /\ [](\A s \in Sessions : OneTeardown(s))
  /\ [][\A s \in Sessions : SecondDiscRuns(s) => UNCHANGED AllButLoopq]_vars

\* two disconnect calls, the second task run while the first still awaits
\* pc.close(), on a session whose channel was open
C5_Witness ==
  /\ discCalls[1] = 2
  /\ loopq[1] = <<>>
  /\ closed[1]
  /\ discLog[1].open
  /\ disctask[1] = "pc.close"
  /\ DisconnectFrames(1) = 1

(***************************************************************************)
(* Claims about the negotiation                                            *)
(***************************************************************************)
\* session s wrote an offer frame to its relay connection
SentOffer(s) == \E i \in 1..Len(sigLog[s]) : sigLog[s][i] = "offer"
\* both sessions hold offer_sent and neither has received the other's offer
BothOfferedUnseen ==
  /\ \A s \in Sessions : offer_sent[s]
  /\ \A s \in Sessions : ~offer_received[s]

\* C1: glare avoidance.  Both sessions never hold offer_sent before either
\* has received the other's offer, and at most one of the two sessions
\* writes an offer frame.
C1_ExactlyOneOffer ==
  /\ ~BothOfferedUnseen
  /\ ~(SentOffer(1) /\ SentOffer(2))

\* the channels that are open at session s's end and wired to it
OpenWired(s) == {c \in Sessions : EndState(s, c) = "open" /\ EndWired(s, c)}

\* C10: in every state of a two-peer negotiation, runs in which both
\* sessions send offers included, at most one channel is open and wired to
\* a given session.
C10_AtMostOneOpenChannel ==
  \A s \in Sessions : Cardinality(OpenWired(s)) <= 1

\* the negotiation completed: each session holds exactly one open channel,
\* and it is the one self.dc refers to
C10_Witness ==
  /\ \A s \in Sessions : OpenWired(s) = {dc[s]}
  /\ dc[1] = dc[2]

(***************************************************************************)
(* Claims about the message handler                                        *)
(***************************************************************************)
\* chanIn[s] without its entry number i
WithoutEntry(s, i) == SubSeq(chanIn[s], 1, i - 1) \o SubSeq(chanIn[s], i + 1, Len(chanIn[s]))
\* this step hands entry number i in transit to session s to its handler
Handles(s, i) == chanIn'[s] = WithoutEntry(s, i)
\* the frame has one of the four shapes: file_chunk, system disconnect,
\* username_announce, chat
MatchesShape(f) ==
  \/ HasKey(f, "type") /\ f.type = "file_chunk"
  \/ HasKey(f, "system") /\ f.system = "disconnect"
  \/ HasKey(f, "username_announce")
  \/ HasKey(f, "msg")
\* the frame fails to parse or has none of the four shapes
Unrecognised(f) == HasKey(f, "bad") \/ ~MatchesShape(f)

\* C11: whenever the handler is handed a frame that fails to parse or has
\* none of the four shapes, it surfaces the system-origin chat event that
\* describes the failure.
C11_UnrecognisedFrameSurfaced ==
  [][\A i \in 1..Len(chanIn[2]) :
       (Handles(2, i) /\ Unrecognised(chanIn[2][i].frame)) => gui'[2] = <<EvParseError>>]_vars

(***************************************************************************)
(* Claims about the relay's rooms                                          *)
(***************************************************************************)
\* the rooms of the registry that hold connection c
RoomsOf(c) == {r \in DOMAIN ROOMS : c \in ROOMS[r]}

\* C12: no room of the registry has an empty member set, and a connection
\* whose handler has ended is a member of no room (so that a room lives
\* exactly as long as it has a member whose handler runs).
C12_RoomLifecycle ==
  /\ \A r \in DOMAIN ROOMS : ROOMS[r] # {}
  /\ \A c \in Conns : hstate[c] = "done" => RoomsOf(c) = {}

\* this step appends a frame to the inbox of connection t
Delivers(t) == Len(inbox'[t]) > Len(inbox[t])

\* C13: the relay never buffers.  A frame is put only in the inboxes of
\* connections that are members of the sender's room when the relay
\* processes it (nothing reaches a connection by any other step, so one that
\* joins later never receives it), and a frame from a connection that has
\* not joined any room is delivered to nobody.
C13_NoBuffering ==
  /\ [](lastRelay.from # 0 =>
          /\ lastRelay.to \subseteq lastRelay.members
          /\ ~lastRelay.joined => lastRelay.to = {})
  /\ [][\A t \in Conns :
          Delivers(t) => /\ lastRelay'.to \subseteq RoomGet(ROOMS, hroom[lastRelay'.from])
                         /\ t \in lastRelay'.to
                         /\ inbox'[t] = Append(inbox[t], lastRelay'.raw)]_vars

(***************************************************************************)
(* Claims about transfers and the closed flag                              *)
(***************************************************************************)
\* C14: no transfer survives a closed session.  A session marked closed
\* holds no Transfer record, and no chunk that arrives after that causes a
\* file to be written.
C14_NoTransferSurvivesClose ==
  /\ [](\A s \in Sessions : closed[s] => file_chunks[s] = <<>>)
  /\ [][\A s \in Sessions : closed[s] => downloads'[s] = downloads[s]]_vars

(***************************************************************************)
(* Claims about signalling failures and click_ready                        *)
(***************************************************************************)
\* this step is a click_ready call of session s
Clicks(s) == Len(clicks'[s]) = Len(clicks[s]) + 1

\* C15: once _run has ended (the relay connection dropped, or a frame made
\* it raise) the session's signalling handle is absent, and a click_ready
\* call made after that queues no send on the relay connection.
C15_HandleClearedOnFailure ==
  /\ [](\A s \in Sessions : run[s] = "done" => ws[s] = None)
  /\ [][\A s \in Sessions : (run[s] = "done" /\ Clicks(s)) => loopq'[s] = loopq[s]]_vars

\* the ready frames session s has written to its relay connection
ReadySent(s) == Len(SelectSeq(sigLog[s], LAMBDA t : t = "ready"))

\* C16: a session writes at most one ready frame to the relay, whatever
\* click_ready calls are made and however they interleave with the startup
\* of _run.
C16_ReadyAtMostOnce ==
  \A s \in Sessions : ReadySent(s) <= 1

(***************************************************************************)
(* Claims about the caller thread                                          *)
(***************************************************************************)
\* this step is taken by the caller thread of session s: it is part of a
\* click_ready, send_message, send_file or disconnect call
CallerStep(s) ==
  \/ clicks'[s] # clicks[s]
  \/ discCalls'[s] # discCalls[s]
  \/ called'[s] # called[s]
  \/ cpc'[s] # cpc[s]
\* the mutable state of session s the loop owns
OwnedState(s) ==
  <<ready[s], peer_ready[s], offer_sent[s], offer_received[s], closed[s],
    pending_msgs[s], dc[s], file_chunks[s]>>

\* C17: single-owner rule.  No step of the caller thread writes the flags,
\* the pending queue, the channel handle or the file-chunk map of its
\* session; the entry points only queue work on the loop.
C17_SingleOwner ==
  [][\A s \in Sessions : CallerStep(s) => UNCHANGED OwnedState(s)]_vars

\* call number i of session s found the channel not open (its text was
\* queued); call number j found it open (its text was sent live)
Queued(s, i) == called[s][i].seen # "open"
Live(s, j) == called[s][j].seen = "open"
\* the text of call number i was passed to no other call
TextOnce(s, i) ==
  \A k \in 1..Len(called[s]) : called[s][k].txt = called[s][i].txt => k = i

\* C18: for calls m1 then m2 of one caller, m1 queued and m2 sent live,
\* whenever the frame of m2 has been sent the frame of m1 was sent before it.
C18_QueuedBeforeLive ==
  \A i, j \in 1..Len(called[1]) :
    (i < j /\ Queued(1, i) /\ Live(1, j) /\ TextOnce(1, i) /\ TextOnce(1, j))
      => LET sent == ChatMsgs(sentLog[1])
         IN \A k \in 1..Len(sent) :
              sent[k] = called[1][j].txt
                => \E l \in 1..(k - 1) : sent[l] = called[1][i].txt

\* this step is a send_message call of session s with an empty or absent text
EmptyCall(s) ==
  /\ Len(called'[s]) = Len(called[s]) + 1
  /\ called'[s][Len(called'[s])].txt \in {"", None}

AttemptFires(s) == timers'[s].pending = timers[s].pending - 1

\* C20: an offer attempt that fires when offer_received or offer_sent is
\* already true creates no channel, sends no offer frame and changes no
\* state of the session, however many attempts were scheduled.
C20_LateAttemptNoOp ==
  [][\A s \in Sessions :
       (AttemptFires(s) /\ (offer_received[s] \/ offer_sent[s]))
         => UNCHANGED <<relayVars, flagVars, negVars, chanVars, chatVars, fileVars,
                        run, otask, disctask, linked, sigLog>>]_vars

\* at least two attempts, scheduled by as many ready frames, fired after the
\* peer's offer had arrived; none is left and the session created no channel
C20_Witness ==
  /\ timers[1].returned >= 2
  /\ timers[1].pending = 0
  /\ offer_received[1]
  /\ dc[1] = NoDc

\* this step schedules an offer attempt of session s
AttemptScheduled(s) == timers'[s].pending > timers[s].pending

\* C21: an offer attempt is scheduled only by the receipt of a ready frame,
\* with ready and peer_ready both true and neither offer_sent nor
\* offer_received set; so offer_sent implies ready and peer_ready.
C21_ScheduledOnlyWhenBothReady ==
  /\ [](\A s \in Sessions : offer_sent[s] => ready[s] /\ peer_ready[s])
  /\ [][\A s \in Sessions :
          AttemptScheduled(s) =>
            /\ inbox[s] # <<>>
            /\ Head(inbox[s]).type = "ready"
            /\ inbox'[s] = Tail(inbox[s])
            /\ ready[s] /\ peer_ready'[s]
            /\ ~offer_sent[s] /\ ~offer_received[s]]_vars

\* session 1 sent its offer from an attempt a ready frame scheduled
C21_Witness ==
  /\ offer_sent[1]
  /\ ready[1] /\ peer_ready[1]
  /\ "offer" \in {sigLog[1][i] : i \in 1..Len(sigLog[1])}

\* the frames of type t session s has sent to the relay
SentCount(s, t) == Cardinality({i \in 1..Len(sigLog[s]) : sigLog[s][i] = t})

\* this step takes a frame of type t from the relay connection of session s
Receives(s, t) ==
  /\ inbox[s] # <<>>
  /\ Head(inbox[s]).type = t
  /\ inbox'[s] = Tail(inbox[s])

\* session s has received an offer and is through with handling it
OfferHandled(s) == offer_received[s] /\ run[s] \in {"recv", "done"}

\* C22: a session sends an answer frame only in response to an offer it
\* received, after offer_received is set, one answer for each offer
\* received; receiving an answer makes it send no signalling frame.
C22_OneAnswerPerOffer ==
  /\ [](\A s \in Sessions :
          /\ SentCount(s, "answer") <= SentCount(Peer(s), "offer")
          /\ SentCount(s, "answer") > 0 => offer_received[s]
          /\ OfferHandled(s) => SentCount(s, "answer") = SentCount(Peer(s), "offer"))
  /\ [][\A s \in Sessions :
          Receives(s, "answer") => sigLog'[s] = sigLog[s] /\ toRelay'[s] = toRelay[s]]_vars

\* click_ready was called on session s before its relay connection was up
ClickedBeforeConnected(s) == \E i \in 1..Len(clicks[s]) : clicks[s][i].ws = None

\* C23: the first frame a session sends to the relay is join, no ready frame
\* goes before it however click_ready interleaves with the connection
\* startup, and a session whose readiness was requested before the
\* connection was up sends ready right after join.
C23_JoinFirst ==
  \A s \in Sessions :
    /\ sigLog[s] # <<>> => sigLog[s][1] = "join"
    /\ \A i \in 1..Len(sigLog[s]) :
         sigLog[s][i] = "ready" => \E k \in 1..(i - 1) : sigLog[s][k] = "join"
    /\ (ClickedBeforeConnected(s) /\ run[s] \notin {"connect", "joined"})
         => Len(sigLog[s]) >= 2 /\ sigLog[s][2] = "ready"

\* session 1 was clicked ready before its connection was up and has sent
\* join, then ready
C23_Witness ==
  /\ ClickedBeforeConnected(1)
  /\ Len(sigLog[1]) >= 2
  /\ sigLog[1][1] = "join" /\ sigLog[1][2] = "ready"

\* the queued texts the open handler of session s has flushed so far
Flushed(s) == [k \in 1..lpc[s].i |-> ChatFrame(s, pending_msgs[s][k])]

Duplicate(s, f) ==
  /\ f.filename \in DOMAIN file_chunks[s]
  /\ f.chunk_id \in DOMAIN file_chunks[s][f.filename].chunks

\* the chunks stored for file k at session s
Stored(s, k) == Cardinality(DOMAIN file_chunks[s][k].chunks)

\* C25: a file_chunk whose chunk_id is already stored for its transfer
\* overwrites the stored payload and leaves the stored-chunk count as it
\* was; on a transfer whose count is below its total it completes nothing:
\* no assembly, no file, the record stays.
C25_DuplicateOverwrites ==
  [][\A f \in DupFrames :
       (Inject(2, f) /\ Duplicate(2, f)) =>
         LET k == f.filename
             old == file_chunks[2][k]
         IN /\ k \in DOMAIN file_chunks'[2]
            /\ file_chunks'[2][k].chunks
                 = [old.chunks EXCEPT ![f.chunk_id] = B64Decode(f.data).bytes]
            /\ Stored(2, k)' = Stored(2, k)
            /\ Stored(2, k) < old.total =>
                 /\ downloads' = downloads
                 /\ delivered' = delivered
                 /\ gui'[2] = <<EvProgress(k, Percent(Stored(2, k), old.total))>>]_vars

\* two frames were handled and one chunk of a two-chunk transfer is stored:
\* the second frame repeated the chunk_id of the first
C25_Witness ==
  /\ ninj = 2
  /\ DOMAIN file_chunks[2] = {"b.png"}
  /\ file_chunks[2]["b.png"].total = 2
  /\ DOMAIN file_chunks[2]["b.png"].chunks = {0}
  /\ downloads[2] = <<>>

\* the record session s holds for the file of frame f once f is stored
TotalFor(s, f) ==
  IF f.filename \in DOMAIN file_chunks[s]
    THEN file_chunks[s][f.filename].total ELSE f.total_chunks
ExtFor(s, f) ==
  IF f.filename \in DOMAIN file_chunks[s]
    THEN file_chunks[s][f.filename].ext ELSE f.ext
IdsWith(s, f) ==
  (IF f.filename \in DOMAIN file_chunks[s]
     THEN DOMAIN file_chunks[s][f.filename].chunks ELSE {}) \cup {f.chunk_id}

\* frame f is the chunk that completes its transfer at session s
Completes(s, f) ==
  /\ HasKey(f, "type") /\ f.type = "file_chunk"
  /\ TotalFor(s, f) >= 1
  /\ IdsWith(s, f) = 0..(TotalFor(s, f) - 1)

\* C26: handling the chunk that completes a transfer surfaces the progress
\* status, then the chat event announcing the file, then the file-ready
\* event with its name and ext, and removes the transfer record: right
\* after it no record for that filename exists.
C26_CompletionEventsThenDiscard ==
  [][\A i \in 1..Len(chanIn[2]) :
       (RecvAt(2, i) /\ Completes(2, chanIn[2][i].frame)) =>
         LET f == chanIn[2][i].frame
             k == f.filename
         IN /\ gui'[2] = <<EvProgress(k, 100), EvFileChat(k), EvFile(k, ExtFor(2, f))>>
            /\ k \notin DOMAIN file_chunks'[2]
            /\ k \in DOMAIN downloads'[2]]_vars

\* a transfer of more than one chunk was completed at session 2 and its
\* record is gone
C26_Witness ==
  \E k \in FileNames :
    /\ k \in DOMAIN downloads[2]
    /\ Len(downloads[2][k]) > ChunkBound
    /\ k \notin DOMAIN file_chunks[2]
    /\ gui[2] = <<EvProgress(k, 100), EvFileChat(k), EvFile(k, ExtOf(k))>>

IsFileChunk(f) == HasKey(f, "type") /\ f.type = "file_chunk"

\* the file_chunk frames session s has sent or has queued on its loop
FileChunksOut(s) ==
  {i \in 1..Len(sentLog[s]) : IsFileChunk(sentLog[s][i])}
    \cup {i \in 1..Len(loopq[s]) : loopq[s][i].cb = "dc.send" /\ IsFileChunk(loopq[s][i].frame)}

\* this step is one of a send_file call of session s, on the caller thread
SendFileRuns(s) ==
  \/ sfLog'[s] # sfLog[s]
  \/ cpc[s].op = "send_file" /\ cpc'[s] # cpc[s]

\* C27: a send_file call made while the channel is not open sends no
\* file_chunk frame and queues none, then or later, and leaves the pending
\* chat queue alone; once the channel is no longer open the chunks still to
\* go are dropped.
C27_NotOpenSendsNothing ==
  /\ [](\A s \in Sessions :
          (sfLog[s] # NoSend /\ sfLog[s].seen # "open") => FileChunksOut(s) = {})
  /\ [][\A s \in Sessions :
          SendFileRuns(s) =>
            /\ pending_msgs' = pending_msgs
            /\ ~DcIsOpen(s) => loopq' = loopq /\ sentLog' = sentLog]_vars

\* with frame f the stored count of its transfer reaches the declared total
\* and the assembly fails: the file cannot be written or an index is missing
AssemblyFails(s, f) ==
  /\ TotalFor(s, f) >= 1
  /\ Cardinality(IdsWith(s, f)) = TotalFor(s, f)
  /\ \/ ~Writable(f.filename)
     \/ IdsWith(s, f) # 0..(TotalFor(s, f) - 1)

\* C28: an assembly that fails when the stored count reaches the declared
\* total is caught and surfaced as an event, the transfer record stays with
\* its chunks, no file-ready event is surfaced and the channel goes on
\* handling frames.
C28_FailedAssemblyKeepsRecord ==
  [][\A f \in AsmFrames :
       (Inject(2, f) /\ AssemblyFails(2, f)) =>
         LET k == f.filename
         IN /\ gui'[2] = <<EvProgress(k, 100), EvParseError>>
            /\ k \in DOMAIN file_chunks'[2]
            /\ DOMAIN file_chunks'[2][k].chunks = IdsWith(2, f)
            /\ delivered' = delivered
            /\ UNCHANGED <<chanVars, closed, lpc>>]_vars

\* the record of the file that could not be written is still held with all
\* its chunks, and a frame handled after that failure completed another file
C28_Witness ==
  /\ "sub/b.png" \in DOMAIN file_chunks[2]
  /\ DOMAIN file_chunks[2]["sub/b.png"].chunks = {0, 1}
  /\ file_chunks[2]["sub/b.png"].total = 2
  /\ gui[2] = <<EvProgress("b.png", 100), EvFileChat("b.png"), EvFile("b.png", ".png")>>

\* C30: a relay connection is a member of at most one room at any time, and
\* of none once its handler has ended, whatever frames it sent, several
\* joins naming different rooms included.
C30_AtMostOneRoom ==
  \A c \in Conns :
    /\ Cardinality(RoomsOf(c)) <= 1
    /\ hstate[c] = "done" => RoomsOf(c) = {}

\* both sessions were clicked ready and nothing is left to run or to
\* deliver: no frame in flight at the relay, no callback queued on a loop,
\* no offer attempt pending, no coroutine in the middle of a step
Settled ==
  \A s \in Sessions :
    /\ clicks[s] # <<>>
    /\ run[s] \in {"recv", "done"}
    /\ run[s] = "recv" => hstate[s] = "open"
    /\ hstate[s] # "dropped"
    /\ toRelay[s] = <<>> /\ inbox[s] = <<>>
    /\ loopq[s] = <<>> /\ lpc[s] = Idle /\ cpc[s] = Idle
    /\ timers[s].pending = 0 /\ otask[s] = "none"

\* one session has sent an offer and the other an answer
OfferAnswered == \E s \in Sessions : SentOffer(s) /\ SentCount(Peer(s), "answer") > 0

\* C29: when both sessions have joined the room and clicked ready, in any
\* order, and the relay drops no connection, the negotiation does not come
\* to rest before one session has sent an offer and the other an answer.
C29_NegotiationProgress == Settled => OfferAnswered

\* C31: once the closed flag of a session is true the session sends no
\* further offer or answer frame and creates no new data channel, however
\* the teardown steps of disconnect interleave with a pending offer attempt
\* and with the relay frames still being handled.
C31_ClosedSendsNoOffer ==
  [][\A s \in Sessions :
       closed[s] =>
         /\ SentCount(s, "offer")' = SentCount(s, "offer")
         /\ SentCount(s, "answer")' = SentCount(s, "answer")
         /\ dc'[s] = dc[s]
         /\ chan'[s].l = "none" \/ chan[s].l # "none"]_vars

\* this step is the handler of connection c relaying a frame
Relays(c) == lastRelay' # lastRelay /\ lastRelay'.from = c

\* C32: a relayed message that cannot be sent to one target member leaves
\* the sender's handler running and the sender a member of its room, and
\* the sender's later messages still reach the remaining members.
C32_DeliveryFailureIsolated ==
  [][\A c \in Conns :
       Relays(c) =>
         /\ hstate'[c] = "open"
         /\ RoomsOf(c)' = RoomsOf(c)
         /\ \A t \in lastRelay'.to :
              hstate[t] = "open" => inbox'[t] = Append(inbox[t], lastRelay'.sent)]_vars

\* the bytes of an n-chunk transfer of file k, in index order
RECURSIVE TwoFile(_, _, _)
TwoFile(k, n, upto) ==
  IF upto = 0 THEN <<>> ELSE TwoFile(k, n, upto - 1) \o TwoBytes(k, n, upto - 1)

\* the files delivered so far under name k
DeliveredAs(k) == {i \in 1..Len(delivered[2]) : delivered[2][i].name = k}

\* C33: two transfers with different filenames whose frames arrive
\* interleaved in any way do not interfere: each record keeps the ext and
\* the total of its own first chunk and holds only its own chunks, each file
\* is assembled once, from its own chunks in index order, and completing
\* one leaves the record of the other as it was.
C33_TransfersIndependent ==
  /\ [](/\ DOMAIN file_chunks[2] \subseteq TwoNames
        /\ \A k \in DOMAIN file_chunks[2] :
             LET r == file_chunks[2][k]
             IN /\ r.ext = ExtOf(k)
                /\ \A id \in DOMAIN r.chunks : r.chunks[id] = TwoBytes(k, r.total, id)
        /\ \A i \in 1..Len(delivered[2]) :
             LET e == delivered[2][i]
                 n == Len(e.bytes) \div 2
             IN /\ e.name \in TwoNames
                /\ Cardinality(DeliveredAs(e.name)) = 1
                /\ e.bytes = TwoFile(e.name, n, n)
                /\ downloads[2][e.name] = e.bytes)
  /\ [][\A k \in TwoNames :
          Cardinality(DeliveredAs(k))' > Cardinality(DeliveredAs(k)) =>
            \A o \in TwoNames \ {k} :
              /\ (o \in DOMAIN file_chunks'[2]) = (o \in DOMAIN file_chunks[2])
              /\ o \in DOMAIN file_chunks[2] => file_chunks'[2][o] = file_chunks[2][o]]_vars

\* both files were delivered, each of more than one chunk, after their
\* frames had arrived interleaved
C33_Witness ==
  /\ Len(delivered[2]) = 2
  /\ \A i \in 1..2 : Len(delivered[2][i].bytes) > 2
  /\ reordered[2]
  /\ file_chunks[2] = <<>>

====
